---- MODULE Spec2Model ----
(***************************************************************************)
(* A model of the algorithmic core of pyutils: the partition index         *)
(* calculator (core/utils.py), the date bucketers (core/date_ops.py), the  *)
(* rank assigners (data_wrangler/transform.py and                          *)
(* data_analysis/transform.py), the table partitioners                     *)
(* (data_wrangler/transform.py), and the utilities of core/string_ops.py,  *)
(* core/query_ops.py, general/utils.py and email_ops/email_ops.py.  The    *)
(* units are independent, so each has a specification of its own over a    *)
(* shared set of variables: SpecPartition, SpecBuckets, SpecBucketCalls,   *)
(* SpecRank, SpecPartitionFrame, SpecStringOps, SpecInsertQuery,           *)
(* SpecFilterList and SpecEmail.                                           *)
(***************************************************************************)
EXTENDS Integers, Sequences, FiniteSets, TLC

VARIABLES
    \* the frame of one call of get_indices_for_partitioning
    pc, length_of_iterable, num_partitions, indices_for_partitioning,
    min_length_per_partition, num_residuals, raised,
    \* a bucketer object, the last call made on it (the value given for
    \* as_strings, its truth value, the error raised if any) and what the
    \* call returned
    bucketer, call, buckets,
    \* the arguments the bucketer was constructed with, and the number of calls
    \* made on it so far (counted by the specification of call sequences)
    constructed, counted_calls,
    \* one call of rank_and_sort or add_ranking_column: its arguments as
    \* passed, its outcome, and the DataFrame objects alive, by reference
    rank_args, rank_out, frames,
    \* one call of one of the utility functions: the function called with its
    \* arguments, and its outcome (for the email functions, the objects the
    \* call works on as well)
    util_call, util_out

partVars == <<pc, length_of_iterable, num_partitions, indices_for_partitioning,
              min_length_per_partition, num_residuals, raised>>
bucketVars == <<bucketer, call, buckets, constructed, counted_calls>>
rankVars == <<rank_args, rank_out, frames>>
utilVars == <<util_call, util_out>>
vars == <<partVars, bucketVars, rankVars, utilVars>>

(***************************************************************************)
(* Bounds of the model.                                                    *)
(***************************************************************************)
MaxLen == 6
MaxP == 4
MaxNegP == 2
\* the cap on the boundary list: it only stops a loop that would not end
MaxListLen == MaxP + 3

(***************************************************************************)
(* Python integer arithmetic: floor division and the modulo whose sign is  *)
(* that of the divisor.                                                    *)
(***************************************************************************)
PyFloorDiv(a, b) == IF b > 0 THEN a \div b ELSE (0 - a) \div (0 - b)

PyMod(a, b) == a - b * PyFloorDiv(a, b)

Last(s) == s[Len(s)]

(***************************************************************************)
(* The variables of the units a specification does not exercise.           *)
(***************************************************************************)
PartIdle ==
    /\ pc = "idle"
    /\ length_of_iterable = 0
    /\ num_partitions = 0
    /\ indices_for_partitioning = <<>>
    /\ min_length_per_partition = 0
    /\ num_residuals = 0
    /\ raised = ""

(***************************************************************************)
(* get_indices_for_partitioning, statement by statement.                   *)
(***************************************************************************)
PartitionInit ==
    /\ pc = "call"
    /\ length_of_iterable \in 0..MaxLen
    /\ num_partitions \in (0 - MaxNegP)..MaxP
    /\ indices_for_partitioning = <<>>
    /\ min_length_per_partition = 0
    /\ num_residuals = 0
    /\ raised = ""

\* a slip that builds the list before it validates num_partitions
RaiseAfterFirstBoundary ==
    /\ UNCHANGED <<bucketVars, rankVars, utilVars>>
    /\ pc = "call"
    /\ num_partitions = 0
    /\ pc' = "raised"
    /\ raised' = "Number of partitions cannot be 0"
    /\ indices_for_partitioning' = <<0>>
    /\ UNCHANGED <<length_of_iterable, num_partitions, min_length_per_partition,
                   num_residuals>>

\* if num_partitions == 0: raise ValueError(...)
RaiseZeroPartitions ==
    /\ UNCHANGED <<bucketVars, rankVars, utilVars>>
    /\ pc = "call"
    /\ num_partitions = 0
    /\ pc' = "raised"
    /\ raised' = "Number of partitions cannot be 0"
    /\ UNCHANGED <<length_of_iterable, num_partitions, indices_for_partitioning,
                   min_length_per_partition, num_residuals>>

\* indices_for_partitioning = [0]; min_length_per_partition = ...; num_residuals = ...
SetUp ==
    /\ UNCHANGED <<bucketVars, rankVars, utilVars>>
    /\ pc = "call"
    /\ num_partitions # 0
    /\ indices_for_partitioning' = <<0>>
    /\ min_length_per_partition' = PyFloorDiv(length_of_iterable, num_partitions)
    /\ num_residuals' = PyMod(length_of_iterable, num_partitions)
    /\ pc' = "residuals"
    /\ UNCHANGED <<length_of_iterable, num_partitions, raised>>

\* a slip that gives a residual partition the minimum length only
ResidualNoExtra(latest_idx) == latest_idx + min_length_per_partition

\* length_of_partition = min_length_per_partition + 1; latest_idx + length_of_partition
ResidualBoundary(latest_idx) == latest_idx + (min_length_per_partition + 1)

\* a slip that tests the first loop's condition on the list's length
ResidualLoopOnLength == Len(indices_for_partitioning) < num_residuals

\* while num_residuals > 0
ResidualLoopTest == num_residuals > 0

\* one pass of the first while-loop
ResidualStep ==
    /\ UNCHANGED <<bucketVars, rankVars, utilVars>>
    /\ pc = "residuals"
    /\ ResidualLoopTest
    /\ num_residuals' = num_residuals - 1
    /\ indices_for_partitioning' =
           Append(indices_for_partitioning,
                  ResidualBoundary(Last(indices_for_partitioning)))
    /\ UNCHANGED <<pc, length_of_iterable, num_partitions,
                   min_length_per_partition, raised>>

\* the first while-loop ends
ResidualExit ==
    /\ UNCHANGED <<bucketVars, rankVars, utilVars>>
    /\ pc = "residuals"
    /\ ~ResidualLoopTest
    /\ pc' = "fill"
    /\ UNCHANGED <<length_of_iterable, num_partitions, indices_for_partitioning,
                   min_length_per_partition, num_residuals, raised>>

\* while len(indices_for_partitioning) != num_partitions + 1
FillLoopTest == Len(indices_for_partitioning) # num_partitions + 1

\* one pass of the second while-loop
FillStep ==
    /\ UNCHANGED <<bucketVars, rankVars, utilVars>>
    /\ pc = "fill"
    /\ FillLoopTest
    /\ Len(indices_for_partitioning) < MaxListLen
    /\ indices_for_partitioning' =
           Append(indices_for_partitioning,
                  Last(indices_for_partitioning) + min_length_per_partition)
    /\ UNCHANGED <<pc, length_of_iterable, num_partitions,
                   min_length_per_partition, num_residuals, raised>>

\* return indices_for_partitioning
Return ==
    /\ UNCHANGED <<bucketVars, rankVars, utilVars>>
    /\ pc = "fill"
    /\ ~FillLoopTest
    /\ pc' = "done"
    /\ UNCHANGED <<length_of_iterable, num_partitions, indices_for_partitioning,
                   min_length_per_partition, num_residuals, raised>>

(***************************************************************************)
(* Bounds of the bucketer model: the anchor years, and the largest bucket  *)
(* length and bucket count a bucketer is constructed with.                 *)
(***************************************************************************)
MinYear == 2015
MaxYear == 2016
MaxDaysPerBucket == 3
MaxBuckets == 3
MaxMonthBuckets == 13

(***************************************************************************)
(* The proleptic Gregorian calendar of datetime: ordinals, as              *)
(* datetime +/- timedelta(days=n) computes with them.                      *)
(***************************************************************************)
IsLeap(year) == year % 4 = 0 /\ (year % 100 # 0 \/ year % 400 = 0)

DaysInMonth(year, month) ==
    IF month = 2 THEN (IF IsLeap(year) THEN 29 ELSE 28)
    ELSE IF month \in {4, 6, 9, 11} THEN 30 ELSE 31

RECURSIVE DaysBeforeMonth(_, _)
DaysBeforeMonth(year, month) ==
    IF month = 1 THEN 0
    ELSE DaysBeforeMonth(year, month - 1) + DaysInMonth(year, month - 1)

DaysBeforeYear(year) ==
    LET y == year - 1
    IN  y * 365 + (y \div 4) - (y \div 100) + (y \div 400)

ToOrdinal(d) == DaysBeforeYear(d.year) + DaysBeforeMonth(d.year, d.month) + d.day

\* the year, month and day of an ordinal (datetime's _ord2ymd)
FromOrdinal(ordinal) ==
    LET n0 == ordinal - 1
        n400 == n0 \div 146097
        r400 == n0 % 146097
        n100 == r400 \div 36524
        r100 == r400 % 36524
        n4 == r100 \div 1461
        r4 == r100 % 1461
        n1 == r4 \div 365
        n == r4 % 365
        year == n400 * 400 + 1 + n100 * 100 + n4 * 4 + n1
        leapyear == n1 = 3 /\ (n4 # 24 \/ n100 = 3)
        guess == (n + 50) \div 32
        before(m) == DaysBeforeMonth(2001, m) + (IF m > 2 /\ leapyear THEN 1 ELSE 0)
        month == IF before(guess) > n THEN guess - 1 ELSE guess
    IN  IF n1 = 4 \/ n100 = 4
        THEN [year |-> year - 1, month |-> 12, day |-> 31]
        ELSE [year |-> year, month |-> month, day |-> n - before(month) + 1]

\* dt_obj + timedelta(days=days): the time of day is kept
AddDays(dt_obj, days) ==
    LET ymd == FromOrdinal(ToOrdinal(dt_obj) + days)
    IN  [dt_obj EXCEPT !.year = ymd.year, !.month = ymd.month, !.day = ymd.day]

\* dt_obj.date()
DateOf(dt_obj) == [year |-> dt_obj.year, month |-> dt_obj.month, day |-> dt_obj.day]

\* datetime(year=..., month=..., day=...) at midnight
Midnight(year, month, day) ==
    [year |-> year, month |-> month, day |-> day,
     hour |-> 0, minute |-> 0, second |-> 0]

(***************************************************************************)
(* Strings are sequences of one-character strings.                         *)
(***************************************************************************)
DigitChars == <<"0", "1", "2", "3", "4", "5", "6", "7", "8", "9">>

DigitValue(c) == (CHOOSE i \in 1..10 : DigitChars[i] = c) - 1

RECURSIVE StrToInt(_)
StrToInt(s) ==
    IF Len(s) = 0 THEN 0
    ELSE StrToInt(SubSeq(s, 1, Len(s) - 1)) * 10 + DigitValue(Last(s))

\* the decimal digits of n, zero-padded to at least width characters
RECURSIVE ZeroPadded(_, _)
ZeroPadded(n, width) ==
    IF width <= 1 /\ n < 10 THEN <<DigitChars[n + 1]>>
    ELSE Append(ZeroPadded(n \div 10, width - 1), DigitChars[(n % 10) + 1])

\* strftime(DATE_STRING_FORMAT), DATE_STRING_FORMAT = "%Y-%m-%d"
FormatDate(d) ==
    ZeroPadded(d.year, 4) \o <<"-">> \o ZeroPadded(d.month, 2)
        \o <<"-">> \o ZeroPadded(d.day, 2)

\* to_date_string
to_date_string(dt_obj) == FormatDate(dt_obj)

\* parse_date_string: datetime.strptime(date_string, DATE_STRING_FORMAT)
parse_date_string(date_string) ==
    LET dashes == {i \in 1..Len(date_string) : date_string[i] = "-"}
        d1 == CHOOSE i \in dashes : \A j \in dashes : i <= j
        d2 == CHOOSE i \in dashes : \A j \in dashes : i >= j
    IN  Midnight(StrToInt(SubSeq(date_string, 1, d1 - 1)),
                 StrToInt(SubSeq(date_string, d1 + 1, d2 - 1)),
                 StrToInt(SubSeq(date_string, d2 + 1, Len(date_string))))

Reverse(s) == [i \in 1..Len(s) |-> s[Len(s) + 1 - i]]

(***************************************************************************)
(* DateWiseBucketer.  self is the object: its four fields.                 *)
(***************************************************************************)
\* start / end of one bucket: a date string if as_strings, else a date
Represent(dt_obj, as_strings) ==
    IF as_strings THEN to_date_string(dt_obj) ELSE DateOf(dt_obj)

\* a slip that never shares the boundary day: is_inclusive is not looked at
DateWiseStepAlwaysExclusive(self) == self.num_days_per_bucket

\* a slip that advances an exclusive bucketer as an inclusive one
DateWiseStepAlwaysInclusive(self) == self.num_days_per_bucket - 1

\* the days dt_obj moves by after a bucket: is_inclusive shares the boundary day
DateWiseStep(self) ==
    IF self.is_inclusive
    THEN self.num_days_per_bucket - 1
    ELSE self.num_days_per_bucket

\* a slip that ends a bucket num_days_per_bucket days after its start
DateWiseSpanOffByOne(self) == self.num_days_per_bucket

\* timedelta(days=self.num_days_per_bucket - 1), from a bucket's start to its end
DateWiseSpan(self) == self.num_days_per_bucket - 1

\* the for-loop of get_forward_buckets, with remaining passes to go
RECURSIVE DateWiseForwardLoop(_, _, _, _)
DateWiseForwardLoop(self, as_strings, dt_obj, remaining) ==
    IF remaining <= 0 THEN <<>>
    ELSE LET dt_start == dt_obj
             dt_end == AddDays(dt_obj, DateWiseSpan(self))
             start == Represent(dt_start, as_strings)
             end == Represent(dt_end, as_strings)
         IN  <<<<start, end>>>> \o
             DateWiseForwardLoop(self, as_strings,
                                 AddDays(dt_obj, DateWiseStep(self)), remaining - 1)

DateWiseBucketer_get_forward_buckets(self, as_strings) ==
    DateWiseForwardLoop(self, as_strings,
                        parse_date_string(self.date_string), self.num_buckets)

\* the for-loop of get_backward_buckets, with remaining passes to go
RECURSIVE DateWiseBackwardLoop(_, _, _, _)
DateWiseBackwardLoop(self, as_strings, dt_obj, remaining) ==
    IF remaining <= 0 THEN <<>>
    ELSE LET dt_end == dt_obj
             dt_start == AddDays(dt_obj, 0 - DateWiseSpan(self))
             start == Represent(dt_start, as_strings)
             end == Represent(dt_end, as_strings)
         IN  <<<<start, end>>>> \o
             DateWiseBackwardLoop(self, as_strings,
                                  AddDays(dt_obj, 0 - DateWiseStep(self)), remaining - 1)

\* a slip that returns the backward buckets as generated, latest first
DateWiseBackwardUnreversed(self, as_strings) ==
    DateWiseBackwardLoop(self, as_strings,
                         parse_date_string(self.date_string), self.num_buckets)

\* return date_range_buckets[::-1]
DateWiseBucketer_get_backward_buckets(self, as_strings) ==
    Reverse(DateWiseBackwardLoop(self, as_strings,
                                 parse_date_string(self.date_string), self.num_buckets))

(***************************************************************************)
(* MonthWiseBucketer.  pd.date_range(start, freq='1M' or '-1M', periods)    *)
(* is the month-end offset of pandas: the start is rolled forward to a      *)
(* month end, and each further timestamp is one offset from the last.       *)
(***************************************************************************)
\* the year and month that lie months after (before, if negative) a month
ShiftMonth(year, month, months) ==
    LET m0 == (month - 1) + months
    IN  [year |-> year + PyFloorDiv(m0, 12), month |-> (m0 % 12) + 1]

\* whether a timestamp is on the month-end offset
IsMonthEnd(ts) == ts.day = DaysInMonth(ts.year, ts.month)

\* MonthEnd.rollforward: the first month end on or after ts
MonthEndRollForward(ts) ==
    IF IsMonthEnd(ts) THEN ts
    ELSE [ts EXCEPT !.day = DaysInMonth(ts.year, ts.month)]

\* ts + n month ends, n = 1 or -1 (pandas' roll_convention, then shift_month)
MonthEndApply(ts, n) ==
    LET last == DaysInMonth(ts.year, ts.month)
        k == IF n > 0 /\ ts.day < last THEN n - 1
             ELSE IF n <= 0 /\ ts.day > last THEN n + 1 ELSE n
        ym == ShiftMonth(ts.year, ts.month, k)
    IN  [ts EXCEPT !.year = ym.year, !.month = ym.month,
                   !.day = DaysInMonth(ym.year, ym.month)]

RECURSIVE GenerateRange(_, _, _)
GenerateRange(cur, n, periods) ==
    IF periods <= 0 THEN <<>>
    ELSE <<cur>> \o GenerateRange(MonthEndApply(cur, n), n, periods - 1)

\* pd.date_range(start=start_date, freq=<n month ends>, periods=periods)
date_range(start_date, n, periods) ==
    GenerateRange(MonthEndRollForward(parse_date_string(start_date)), n, periods)

\* period_to_datetime: the fields of the pandas object, one by one
period_to_datetime(period_obj) ==
    [year |-> period_obj.year, month |-> period_obj.month, day |-> period_obj.day,
     hour |-> period_obj.hour, minute |-> period_obj.minute,
     second |-> period_obj.second]

\* a slip that forgets to move the start to the first day of the month
PeriodToBucketNoFirstDay(period_obj, as_strings) ==
    LET dt_obj == period_to_datetime(period_obj)
        start == DateOf(dt_obj)
        end == DateOf(dt_obj)
    IN  IF as_strings THEN <<FormatDate(start), FormatDate(end)>> ELSE <<start, end>>

\* __period_obj_to_month_wise_bucket
period_obj_to_month_wise_bucket(period_obj, as_strings) ==
    LET dt_obj == period_to_datetime(period_obj)
        start == DateOf([dt_obj EXCEPT !.day = 1])
        end == DateOf(dt_obj)
    IN  IF as_strings THEN <<FormatDate(start), FormatDate(end)>> ELSE <<start, end>>

\* start_date = datetime(year=self.year, month=self.month, day=1).strftime(...)
MonthWiseStartDate(self) == FormatDate(Midnight(self.year, self.month, 1))

\* a slip that starts the forward range one month after the anchor month
MonthWiseForwardSkipAnchor(self, as_strings) ==
    LET period_objs == date_range(MonthWiseStartDate(self), 1, self.num_buckets + 1)
    IN  [i \in 1..self.num_buckets |->
            period_obj_to_month_wise_bucket(period_objs[i + 1], as_strings)]

MonthWiseBucketer_get_forward_buckets(self, as_strings) ==
    LET period_objs == date_range(MonthWiseStartDate(self), 1, self.num_buckets)
    IN  [i \in 1..Len(period_objs) |->
            period_obj_to_month_wise_bucket(period_objs[i], as_strings)]

MonthWiseBucketer_get_backward_buckets(self, as_strings) ==
    LET period_objs == date_range(MonthWiseStartDate(self), 0 - 1, self.num_buckets)
    IN  Reverse([i \in 1..Len(period_objs) |->
                    period_obj_to_month_wise_bucket(period_objs[i], as_strings)])

(***************************************************************************)
(* The bucketer specification: an object is constructed, then its two      *)
(* methods are called any number of times.                                 *)
(***************************************************************************)
\* the values a caller passes for as_strings, as Python writes them: the two
\* booleans and a value that is neither
AsStringsArguments == {"True", "False", "'dates'"}

\* `if as_strings`: the truth value of what was passed; nothing else is tested
Truthy(given) == given \in {"True", "'dates'"}

AnchorDates ==
    {d \in [year : MinYear..MaxYear, month : 1..12, day : {1, 14, 28, 29, 30, 31}] :
        d.day <= DaysInMonth(d.year, d.month)}

\* DateWiseBucketer.__init__
DateWiseBucketers ==
    {[cls |-> "DateWiseBucketer", date_string |-> FormatDate(d),
      num_days_per_bucket |-> s, num_buckets |-> n, is_inclusive |-> inc] :
        d \in AnchorDates, s \in 0..MaxDaysPerBucket, n \in 1..MaxBuckets,
        inc \in BOOLEAN}

\* MonthWiseBucketer.__init__
MonthWiseBucketers ==
    {[cls |-> "MonthWiseBucketer", year |-> y, month |-> m, num_buckets |-> n] :
        y \in MinYear..MaxYear, m \in 1..12, n \in 1..MaxMonthBuckets}

BucketIdle ==
    /\ bucketer = [cls |-> "none"]
    /\ call = [method |-> "none", given |-> "False", as_strings |-> FALSE,
               error |-> "none"]
    /\ buckets = <<>>
    /\ constructed = [cls |-> "none"]
    /\ counted_calls = 0

RankIdle ==
    /\ rank_args = [method |-> "none"]
    /\ rank_out = [status |-> "none"]
    /\ frames = <<>>

UtilIdle ==
    /\ util_call = [fn |-> "none"]
    /\ util_out = [status |-> "none"]

BucketInit ==
    /\ bucketer \in DateWiseBucketers \cup MonthWiseBucketers
    /\ call = [method |-> "none", given |-> "False", as_strings |-> FALSE,
               error |-> "none"]
    /\ buckets = <<>>
    /\ constructed = bucketer
    /\ counted_calls = 0

\* a slip that keeps the advanced date on the object: self.date_string is
\* moved by one bucket length at each call
FieldsAfterCallAnchorMoved(self, method) ==
    IF self.cls = "DateWiseBucketer"
    THEN [self EXCEPT !.date_string =
             to_date_string(AddDays(parse_date_string(@),
                 IF method = "get_forward_buckets" THEN self.num_days_per_bucket
                 ELSE 0 - self.num_days_per_bucket))]
    ELSE [self EXCEPT !.month = IF method = "get_forward_buckets"
                                THEN (IF @ = 12 THEN 1 ELSE @ + 1)
                                ELSE (IF @ = 1 THEN 12 ELSE @ - 1)]

\* the fields of self after a call of one of its methods: the methods read
\* self.date_string, self.year, ... and assign none of them
FieldsAfterCall(self, method) == self

DateWiseForward ==
    /\ bucketer.cls = "DateWiseBucketer"
    /\ \E given \in AsStringsArguments :
          LET as_strings == Truthy(given)
          IN  /\ call' = [method |-> "get_forward_buckets", given |-> given,
                          as_strings |-> as_strings, error |-> "none"]
              /\ buckets' = DateWiseBucketer_get_forward_buckets(bucketer, as_strings)
    /\ bucketer' = FieldsAfterCall(bucketer, call'.method)
    /\ UNCHANGED <<constructed, counted_calls, partVars, rankVars, utilVars>>

DateWiseBackward ==
    /\ bucketer.cls = "DateWiseBucketer"
    /\ \E given \in AsStringsArguments :
          LET as_strings == Truthy(given)
          IN  /\ call' = [method |-> "get_backward_buckets", given |-> given,
                          as_strings |-> as_strings, error |-> "none"]
              /\ buckets' = DateWiseBucketer_get_backward_buckets(bucketer, as_strings)
    /\ bucketer' = FieldsAfterCall(bucketer, call'.method)
    /\ UNCHANGED <<constructed, counted_calls, partVars, rankVars, utilVars>>

MonthWiseForward ==
    /\ bucketer.cls = "MonthWiseBucketer"
    /\ \E given \in AsStringsArguments :
          LET as_strings == Truthy(given)
          IN  /\ call' = [method |-> "get_forward_buckets", given |-> given,
                          as_strings |-> as_strings, error |-> "none"]
              /\ buckets' = MonthWiseBucketer_get_forward_buckets(bucketer, as_strings)
    /\ bucketer' = FieldsAfterCall(bucketer, call'.method)
    /\ UNCHANGED <<constructed, counted_calls, partVars, rankVars, utilVars>>

MonthWiseBackward ==
    /\ bucketer.cls = "MonthWiseBucketer"
    /\ \E given \in AsStringsArguments :
          LET as_strings == Truthy(given)
          IN  /\ call' = [method |-> "get_backward_buckets", given |-> given,
                          as_strings |-> as_strings, error |-> "none"]
              /\ buckets' = MonthWiseBucketer_get_backward_buckets(bucketer, as_strings)
    /\ bucketer' = FieldsAfterCall(bucketer, call'.method)
    /\ UNCHANGED <<constructed, counted_calls, partVars, rankVars, utilVars>>

(***************************************************************************)
(* Sequences of calls on one bucketer object, counted, over the bucketers  *)
(* anchored in February and in December.                                   *)
(***************************************************************************)
MaxCalls == 2

\* the value a call of `method` on the object self returns
BucketerCall(self, method, as_strings) ==
    IF self.cls = "DateWiseBucketer"
    THEN (IF method = "get_forward_buckets"
          THEN DateWiseBucketer_get_forward_buckets(self, as_strings)
          ELSE DateWiseBucketer_get_backward_buckets(self, as_strings))
    ELSE (IF method = "get_forward_buckets"
          THEN MonthWiseBucketer_get_forward_buckets(self, as_strings)
          ELSE MonthWiseBucketer_get_backward_buckets(self, as_strings))

SequenceBucketers ==
    {b \in DateWiseBucketers : parse_date_string(b.date_string).month \in {2, 12}}
        \cup {b \in MonthWiseBucketers : b.month \in {2, 12}}

BucketCallsInit ==
    /\ bucketer \in SequenceBucketers
    /\ call = [method |-> "none", given |-> "False", as_strings |-> FALSE,
               error |-> "none"]
    /\ buckets = <<>>
    /\ constructed = bucketer
    /\ counted_calls = 0

\* one more call of get_forward_buckets on the object
CountedForward ==
    /\ counted_calls < MaxCalls
    /\ \E given \in AsStringsArguments :
          /\ call' = [method |-> "get_forward_buckets", given |-> given,
                      as_strings |-> Truthy(given), error |-> "none"]
          /\ buckets' = BucketerCall(bucketer, "get_forward_buckets", Truthy(given))
    /\ bucketer' = FieldsAfterCall(bucketer, "get_forward_buckets")
    /\ counted_calls' = counted_calls + 1
    /\ UNCHANGED <<constructed, partVars, rankVars, utilVars>>

\* one more call of get_backward_buckets on the object
CountedBackward ==
    /\ counted_calls < MaxCalls
    /\ \E given \in AsStringsArguments :
          /\ call' = [method |-> "get_backward_buckets", given |-> given,
                      as_strings |-> Truthy(given), error |-> "none"]
          /\ buckets' = BucketerCall(bucketer, "get_backward_buckets", Truthy(given))
    /\ bucketer' = FieldsAfterCall(bucketer, "get_backward_buckets")
    /\ counted_calls' = counted_calls + 1
    /\ UNCHANGED <<constructed, partVars, rankVars, utilVars>>

(***************************************************************************)
(* rank_and_sort.  A table is its column names and its rows, each row a    *)
(* function from column name to value.  The input rows carry their input   *)
(* position in column "id".                                                *)
(***************************************************************************)
MaxRows == 3
MaxKey == 2

method_options == <<"row_number", "dense_rank", "non_dense_rank">>

SeqRange(s) == {s[i] : i \in 1..Len(s)}

\* the tuple of a row's values in the rank_by columns (itertuples)
KeyTuple(row, rank_by) == [i \in 1..Len(rank_by) |-> row[rank_by[i]]]

\* a slip that sorts every key in ascending order, whatever `ascending` says
RECURSIVE SortsBeforeAscendingOnly(_, _, _, _, _)
SortsBeforeAscendingOnly(r, t, rank_by, ascending, i) ==
    IF i > Len(rank_by) THEN FALSE
    ELSE IF r[rank_by[i]] = t[rank_by[i]]
         THEN SortsBeforeAscendingOnly(r, t, rank_by, ascending, i + 1)
    ELSE r[rank_by[i]] < t[rank_by[i]]

\* row r sorts strictly before row t: the first key they differ in decides,
\* by that key's own direction
RECURSIVE SortsBefore(_, _, _, _, _)
SortsBefore(r, t, rank_by, ascending, i) ==
    IF i > Len(rank_by) THEN FALSE
    ELSE IF r[rank_by[i]] = t[rank_by[i]]
         THEN SortsBefore(r, t, rank_by, ascending, i + 1)
    ELSE IF ascending[i] THEN r[rank_by[i]] < t[rank_by[i]]
    ELSE r[rank_by[i]] > t[rank_by[i]]

RowOrders(n) == {f \in [1..n -> 1..n] : \A i, j \in 1..n : (i # j) => (f[i] # f[j])}

\* the orders in which the sort may leave the rows: rows of different keys in
\* key order; rows of equal keys in input order when the sort is stable
SortOrders(rows, rank_by, ascending, stable) ==
    {f \in RowOrders(Len(rows)) :
        \A i, j \in 1..Len(rows) :
            (i < j) =>
                /\ ~SortsBefore(rows[f[j]], rows[f[i]], rank_by, ascending, 1)
                /\ (stable /\ ~SortsBefore(rows[f[i]], rows[f[j]], rank_by, ascending, 1))
                       => (f[i] < f[j])}

\* data.sort_values(by=rank_by, ascending=ascending, ignore_index=True): the
\* tables it may return.  Several keys are sorted by a stable lexsort; one key
\* by the default kind, quicksort, which is not stable.
sort_values(data, rank_by, ascending) ==
    {[columns |-> data.columns,
      rows |-> [i \in 1..Len(data.rows) |-> data.rows[f[i]]]] :
        f \in SortOrders(data.rows, rank_by, ascending, Len(rank_by) > 1)}

\* a slip that counts down from len(df_ranked) to 1
RowNumberCountingDown(df_ranked) ==
    [i \in 1..Len(df_ranked.rows) |-> Len(df_ranked.rows) - i + 1]

\* a slip that starts np.arange at 0
RowNumberFromZero(df_ranked) == [i \in 1..Len(df_ranked.rows) |-> i - 1]

\* __get_row_number_rankings: list(np.arange(start=1, stop=len(df_ranked) + 1, step=1))
get_row_number_rankings(df_ranked) == [i \in 1..Len(df_ranked.rows) |-> i]

\* a slip that leaves out `prev = value`: every row is compared with the first
RECURSIVE DenseLoopPrevNotUpdated(_, _, _)
DenseLoopPrevNotUpdated(values, dense_rankings, i) ==
    IF i > Len(values) THEN dense_rankings
    ELSE LET latest_rank_assigned == Last(dense_rankings)
             ranking_for_row == IF values[1] = values[i]
                                THEN latest_rank_assigned
                                ELSE latest_rank_assigned + 1
         IN  DenseLoopPrevNotUpdated(values, Append(dense_rankings, ranking_for_row),
                                     i + 1)

\* the for-loop of __get_dense_rankings over values_used_for_ranking[i..]
RECURSIVE DenseLoop(_, _, _)
DenseLoop(values, dense_rankings, i) ==
    IF i > Len(values) THEN dense_rankings
    ELSE LET latest_rank_assigned == Last(dense_rankings)
             ranking_for_row == IF values[i - 1] = values[i]
                                THEN latest_rank_assigned
                                ELSE latest_rank_assigned + 1
         IN  DenseLoop(values, Append(dense_rankings, ranking_for_row), i + 1)

\* a slip that compares the first rank_by column only
DenseRankingsFirstKeyOnly(df_ranked, rank_by) ==
    DenseLoop([i \in 1..Len(df_ranked.rows) |->
                  KeyTuple(df_ranked.rows[i], SubSeq(rank_by, 1, 1))],
              <<1>>, 2)

\* __get_dense_rankings (values_used_for_ranking[0] exists: the table has rows)
get_dense_rankings(df_ranked, rank_by) ==
    DenseLoop([i \in 1..Len(df_ranked.rows) |-> KeyTuple(df_ranked.rows[i], rank_by)],
              <<1>>, 2)

\* a slip that adds the number of rows ranked so far, not the number of rows
\* holding the latest rank
CountOfAll(rankings, rank) == Len(rankings)

\* Counter(rankings)[rank]
CountOf(rankings, rank) == Cardinality({i \in 1..Len(rankings) : rankings[i] = rank})

\* a slip that steps to the next rank as the dense ranking does
RECURSIVE NonDenseLoopStepOfOne(_, _, _)
NonDenseLoopStepOfOne(values, non_dense_rankings, i) ==
    IF i > Len(values) THEN non_dense_rankings
    ELSE LET latest_rank_assigned == Last(non_dense_rankings)
             ranking_for_row ==
                 IF values[i - 1] = values[i]
                 THEN latest_rank_assigned
                 ELSE latest_rank_assigned + 1
         IN  NonDenseLoopStepOfOne(values, Append(non_dense_rankings, ranking_for_row),
                                   i + 1)

\* the for-loop of __get_non_dense_rankings over values_used_for_ranking[i..]
RECURSIVE NonDenseLoop(_, _, _)
NonDenseLoop(values, non_dense_rankings, i) ==
    IF i > Len(values) THEN non_dense_rankings
    ELSE LET latest_rank_assigned == Last(non_dense_rankings)
             ranking_for_row ==
                 IF values[i - 1] = values[i]
                 THEN latest_rank_assigned
                 ELSE latest_rank_assigned
                          + CountOf(non_dense_rankings, latest_rank_assigned)
         IN  NonDenseLoop(values, Append(non_dense_rankings, ranking_for_row), i + 1)

\* __get_non_dense_rankings (values_used_for_ranking[0] exists: the table has rows)
get_non_dense_rankings(df_ranked, rank_by) ==
    NonDenseLoop([i \in 1..Len(df_ranked.rows) |-> KeyTuple(df_ranked.rows[i], rank_by)],
                 <<1>>, 2)

\* rankings = ... by method
Rankings(df_ranked, rank_by, method) ==
    IF method = "row_number" THEN get_row_number_rankings(df_ranked)
    ELSE IF method = "dense_rank" THEN get_dense_rankings(df_ranked, rank_by)
    ELSE get_non_dense_rankings(df_ranked, rank_by)

\* df[name] = values: an existing column is overwritten where it stands, a
\* new one is added after the last column
SetColumn(table, name, values) ==
    [columns |-> IF name \in SeqRange(table.columns) THEN table.columns
                 ELSE Append(table.columns, name),
     rows |-> [i \in 1..Len(table.rows) |->
                  [c \in (DOMAIN table.rows[i]) \cup {name} |->
                      IF c = name THEN values[i] ELSE table.rows[i][c]]]]

\* column_order = [rank_column_name] + df_ranked.drop(labels=[rank_column_name],
\* axis=1).columns.tolist()
ColumnOrder(table, rank_column_name) ==
    <<rank_column_name>> \o SelectSeq(table.columns, LAMBDA c : c # rank_column_name)

\* the sorted table of the docstring of rank_and_sort
DocExample ==
    [columns |-> <<"column">>,
     rows |-> [i \in 1..14 |->
                  [column |-> <<"a", "a", "a", "a", "b", "b", "c", "d", "d",
                                "e", "e", "f", "g", "g">>[i]]]]

(***************************************************************************)
(* DataFrame objects.  frames[r] is the table held by the object of        *)
(* reference r; the caller's table is object 1.  An operation that builds  *)
(* a DataFrame allocates the next reference; an item assignment changes    *)
(* the object it is made on.                                               *)
(***************************************************************************)
NewFrame(fr, table) == [frames |-> Append(fr, table), ref |-> Len(fr) + 1]

\* a slip that sorts the caller's object itself (inplace=True)
SortedInPlace(fr, ref, df_sorted) ==
    [frames |-> [fr EXCEPT ![ref] = df_sorted], ref |-> ref]

\* .sort_values(..., ignore_index=True) with inplace left False: a new object
SortedFrame(fr, ref, df_sorted) == NewFrame(fr, df_sorted)

\* .copy(deep=True): a new object holding the same table
CopyDeep(fr, ref) == NewFrame(fr, fr[ref])

\* df_ranked[rank_column_name] = rankings, on the object itself
SetItem(fr, ref, name, values) == [fr EXCEPT ![ref] = SetColumn(@, name, values)]

\* df_ranked.loc[:, column_order]: a new object with the columns in that order
LocColumns(fr, ref, column_order) ==
    NewFrame(fr, [columns |-> column_order, rows |-> fr[ref].rows])

(***************************************************************************)
(* The ranking specification: one call of rank_and_sort, or of             *)
(* add_ranking_column, with its arguments drawn from small sets.           *)
(***************************************************************************)
RankTables ==
    UNION {{[columns |-> <<"id", "a", "b">>,
             rows |-> [i \in 1..n |-> [id |-> i, a |-> keys[i].a, b |-> keys[i].b]]] :
               keys \in [1..n -> [a : 1..MaxKey, b : {1, 2}]]} : n \in 0..MaxRows}

RankBys == {<<>>, <<"a">>, <<"a", "b">>}

Ascendings == UNION {[1..n -> BOOLEAN] : n \in 0..2}

\* the calls made.  A call with no key and no direction at all is left out:
\* what sort_values does with it differs between pandas releases.
RankCalls ==
    {c \in [fn : {"rank_and_sort"}, data : RankTables, rank_column_name : {"rank"},
            rank_by : RankBys, ascending : Ascendings,
            method : SeqRange(method_options) \cup {"bogus"}]
           \cup [fn : {"add_ranking_column"}, data : RankTables,
                 rank_column_name : {"rank"}, rank_by : RankBys,
                 ascending : Ascendings] :
        Len(c.rank_by) + Len(c.ascending) > 0}

RankInit ==
    /\ rank_args \in RankCalls
    /\ rank_out = [status |-> "idle"]
    /\ frames = <<rank_args.data>>

\* a slip that checks the lengths before the method
RankInvalidMethodCheckedSecond ==
    /\ rank_out.status = "idle"
    /\ rank_args.fn = "rank_and_sort"
    /\ rank_args.method \notin SeqRange(method_options)
    /\ rank_out' = IF Len(rank_args.rank_by) # Len(rank_args.ascending)
                   THEN [status |-> "raised", error |-> "ValueError",
                         lengths |-> <<Len(rank_args.rank_by),
                                       Len(rank_args.ascending)>>]
                   ELSE [status |-> "raised", error |-> "ValueError",
                         option_name |-> "method", got |-> rank_args.method,
                         expected |-> method_options]
    /\ UNCHANGED <<rank_args, frames, partVars, bucketVars, utilVars>>

\* raise ValueError: `method` is not one of method_options
RankInvalidMethod ==
    /\ rank_out.status = "idle"
    /\ rank_args.fn = "rank_and_sort"
    /\ rank_args.method \notin SeqRange(method_options)
    /\ rank_out' = [status |-> "raised", error |-> "ValueError",
                    option_name |-> "method", got |-> rank_args.method,
                    expected |-> method_options]
    /\ UNCHANGED <<rank_args, frames, partVars, bucketVars, utilVars>>

\* a slip that reports len(ascending) before len(rank_by)
RankLengthMismatchSwapped ==
    /\ rank_out.status = "idle"
    /\ rank_args.fn = "rank_and_sort"
    /\ rank_args.method \in SeqRange(method_options)
    /\ Len(rank_args.rank_by) # Len(rank_args.ascending)
    /\ rank_out' = [status |-> "raised", error |-> "ValueError",
                    lengths |-> <<Len(rank_args.ascending), Len(rank_args.rank_by)>>]
    /\ UNCHANGED <<rank_args, frames, partVars, bucketVars, utilVars>>

\* raise ValueError: rank_by and ascending differ in length
RankLengthMismatch ==
    /\ rank_out.status = "idle"
    /\ rank_args.fn = "rank_and_sort"
    /\ rank_args.method \in SeqRange(method_options)
    /\ Len(rank_args.rank_by) # Len(rank_args.ascending)
    /\ rank_out' = [status |-> "raised", error |-> "ValueError",
                    lengths |-> <<Len(rank_args.rank_by), Len(rank_args.ascending)>>]
    /\ UNCHANGED <<rank_args, frames, partVars, bucketVars, utilVars>>

\* values_used_for_ranking[0] on a table without rows: IndexError.  The
\* sorted copy has been made by then; nothing refers to it afterwards.
RankEmptyIndexError ==
    /\ rank_out.status = "idle"
    /\ rank_args.fn = "rank_and_sort"
    /\ rank_args.method \in {"dense_rank", "non_dense_rank"}
    /\ Len(rank_args.rank_by) = Len(rank_args.ascending)
    /\ Len(rank_args.data.rows) = 0
    /\ rank_out' = [status |-> "raised", error |-> "IndexError"]
    /\ UNCHANGED <<rank_args, frames, partVars, bucketVars, utilVars>>

\* the table is sorted, ranked and returned
RankReturn ==
    /\ rank_out.status = "idle"
    /\ rank_args.fn = "rank_and_sort"
    /\ rank_args.method \in SeqRange(method_options)
    /\ Len(rank_args.rank_by) = Len(rank_args.ascending)
    /\ rank_args.method = "row_number" \/ Len(rank_args.data.rows) > 0
    /\ \E df_sorted \in sort_values(frames[1], rank_args.rank_by,
                                    rank_args.ascending) :
          LET sorted == SortedFrame(frames, 1, df_sorted)
              copied == CopyDeep(sorted.frames, sorted.ref)
              df_ranked == copied.frames[copied.ref]
              rankings == Rankings(df_ranked, rank_args.rank_by, rank_args.method)
              assigned == SetItem(copied.frames, copied.ref,
                                  rank_args.rank_column_name, rankings)
              reordered == LocColumns(assigned, copied.ref,
                               ColumnOrder(assigned[copied.ref],
                                           rank_args.rank_column_name))
          IN  /\ frames' = reordered.frames
              /\ rank_out' = [status |-> "returned", ref |-> reordered.ref,
                              value |-> reordered.frames[reordered.ref]]
    /\ UNCHANGED <<rank_args, partVars, bucketVars, utilVars>>

\* add_ranking_column: raise ValueError, rank_by and ascending differ in length
AddRankingLengthMismatch ==
    /\ rank_out.status = "idle"
    /\ rank_args.fn = "add_ranking_column"
    /\ Len(rank_args.rank_by) # Len(rank_args.ascending)
    /\ rank_out' = [status |-> "raised", error |-> "ValueError",
                    lengths |-> <<Len(rank_args.rank_by), Len(rank_args.ascending)>>]
    /\ UNCHANGED <<rank_args, frames, partVars, bucketVars, utilVars>>

\* add_ranking_column: the table is sorted, numbered from 1 and returned
AddRankingReturn ==
    /\ rank_out.status = "idle"
    /\ rank_args.fn = "add_ranking_column"
    /\ Len(rank_args.rank_by) = Len(rank_args.ascending)
    /\ \E df_sorted \in sort_values(frames[1], rank_args.rank_by,
                                    rank_args.ascending) :
          LET sorted == SortedFrame(frames, 1, df_sorted)
              df_ranked == sorted.frames[sorted.ref]
              rankings == [i \in 1..Len(df_ranked.rows) |-> i]
              assigned == SetItem(sorted.frames, sorted.ref,
                                  rank_args.rank_column_name, rankings)
              reordered == LocColumns(assigned, sorted.ref,
                               ColumnOrder(assigned[sorted.ref],
                                           rank_args.rank_column_name))
          IN  /\ frames' = reordered.frames
              /\ rank_out' = [status |-> "returned", ref |-> reordered.ref,
                              value |-> reordered.frames[reordered.ref]]
    /\ UNCHANGED <<rank_args, partVars, bucketVars, utilVars>>

\* after the call the caller changes the table it was handed back: it
\* overwrites the rank column
CallerChangesResult ==
    /\ rank_out.status = "returned"
    /\ Len(rank_out.value.rows) > 0
    /\ frames' = SetItem(frames, rank_out.ref, rank_args.rank_column_name,
                         [i \in 1..Len(frames[rank_out.ref].rows) |-> 0])
    /\ rank_out' = [rank_out EXCEPT !.status = "changed"]
    /\ UNCHANGED <<rank_args, partVars, bucketVars, utilVars>>


(***************************************************************************)
(* Python slices of a sequence s (a list, or a string as its characters).  *)
(* An index below zero counts from the end; an index beyond either end is  *)
(* clamped; -0 is 0.                                                       *)
(***************************************************************************)
SliceIndex(i, n) ==
    IF i < 0 THEN (IF n + i < 0 THEN 0 ELSE n + i)
    ELSE (IF i > n THEN n ELSE i)

\* s[start:stop]
Slice(s, start, stop) ==
    SubSeq(s, SliceIndex(start, Len(s)) + 1, SliceIndex(stop, Len(s)))

\* s[start:]
SliceFrom(s, start) == SubSeq(s, SliceIndex(start, Len(s)) + 1, Len(s))

\* s[:stop]
SliceTo(s, stop) == SubSeq(s, 1, SliceIndex(stop, Len(s)))

(***************************************************************************)
(* core/string_ops.py.  A result is the text returned, or the ValueError   *)
(* of __raise_error_if_num_chars_is_negative.                              *)
(***************************************************************************)
NumCharsError ==
    [status |-> "raised", error |-> "ValueError", option_name |-> "num_chars"]

Returned(value) == [status |-> "returned", value |-> value]

get_first_n_characters(text, num_chars) ==
    IF num_chars < 0 THEN NumCharsError ELSE Returned(SliceTo(text, num_chars))

get_last_n_characters(text, num_chars) ==
    IF num_chars < 0 THEN NumCharsError ELSE Returned(SliceFrom(text, 0 - num_chars))

remove_first_n_characters(text, num_chars) ==
    IF num_chars < 0 THEN NumCharsError ELSE Returned(SliceFrom(text, num_chars))

remove_last_n_characters(text, num_chars) ==
    IF num_chars < 0 THEN NumCharsError ELSE Returned(SliceTo(text, 0 - num_chars))

(***************************************************************************)
(* core/query_ops.py: generate_insert_query.  A cell value is its kind and *)
(* the text str() gives for it.                                            *)
(***************************************************************************)
MaxRecords == 2

\* the texts the functions of query_ops.py write; the grave accent that
\* surrounds the table name is written as a word
BACKQUOTE == "grave"

NULL_SQL == <<"n", "u", "l", "l">>

COMMA_SPACE == <<",", " ">>

\* sep.join(texts)
RECURSIVE Join(_, _)
Join(texts, sep) ==
    IF Len(texts) = 0 THEN <<>>
    ELSE IF Len(texts) = 1 THEN texts[1]
    ELSE texts[1] \o sep \o Join(Tail(texts), sep)

\* is_none_or_nan (core/utils.py)
is_none_or_nan(value) == value.kind \in {"None", "nan"}

wrap_string_with_appropriate_quotes(text) ==
    IF \E i \in 1..Len(text) : text[i] = "'"
    THEN <<"\"">> \o text \o <<"\"">>
    ELSE <<"'">> \o text \o <<"'">>

\* __wrap_boolean_value: 'true' for True, 'false' for False, else 'null'
wrap_boolean_value(value) ==
    IF value.kind = "bool" /\ value.text = <<"T", "r", "u", "e">>
    THEN <<"t", "r", "u", "e">>
    ELSE IF value.kind = "bool" /\ value.text = <<"F", "a", "l", "s", "e">>
    THEN <<"f", "a", "l", "s", "e">>
    ELSE NULL_SQL

\* __wrap_value_by_sql_datatype, for the whole numbers the tables hold:
\* int(value) prints as the number, float(value) with ".0"
wrap_value_by_sql_datatype(value, datatype) ==
    IF is_none_or_nan(value) THEN Returned(NULL_SQL)
    ELSE IF datatype = "integer" THEN Returned(value.text)
    ELSE IF datatype = "float" THEN Returned(value.text \o <<".", "0">>)
    ELSE IF datatype = "string"
         THEN Returned(wrap_string_with_appropriate_quotes(value.text))
    ELSE IF datatype = "date"
         THEN Returned(<<"D", "A", "T", "E", "(", "'">> \o value.text \o <<"'", ")">>)
    ELSE IF datatype = "timestamp"
         THEN Returned(<<"T", "I", "M", "E", "S", "T", "A", "M", "P", "(", "'">>
                           \o value.text \o <<"'", ")">>)
    ELSE IF datatype = "boolean" THEN Returned(wrap_boolean_value(value))
    ELSE [status |-> "raised", error |-> "ValueError", option_name |-> "datatype",
          got |-> datatype]

\* the loops of __get_query_string_of_records from record i on: the text
\* appended to query, or the error of the first value that raises
RECURSIVE RecordsLoop(_, _, _, _, _)
RecordsLoop(records, columns, datatypes, query, i) ==
    IF i > Len(records) THEN Returned(query)
    ELSE LET wrapped == [k \in 1..Len(columns) |->
                            wrap_value_by_sql_datatype(records[i][columns[k]],
                                                       datatypes[k])]
             failed == {k \in 1..Len(columns) : wrapped[k].status = "raised"}
         IN  IF failed # {}
             THEN wrapped[CHOOSE k \in failed : \A m \in failed : k <= m]
             ELSE LET values_per_record == [k \in 1..Len(columns) |-> wrapped[k].value]
                      comma_separated_values == Join(values_per_record, COMMA_SPACE)
                  IN  RecordsLoop(records, columns, datatypes,
                                  query \o <<"(">> \o comma_separated_values
                                        \o <<")", ",", "\n">>,
                                  i + 1)

\* __get_query_string_of_records
get_query_string_of_records(records, columns, datatypes) ==
    LET looped == RecordsLoop(records, columns, datatypes, <<>>, 1)
    IN  IF looped.status = "raised" THEN looped
        ELSE remove_last_n_characters(looped.value, 2)

\* generate_insert_query; a column name is one character
generate_insert_query(data, table_name, column_to_datatype_mapper) ==
    LET records == data.rows
        columns == data.columns
        datatypes == [k \in 1..Len(columns) |-> column_to_datatype_mapper[columns[k]]]
        comma_separated_columns == Join([k \in 1..Len(columns) |-> <<columns[k]>>],
                                        COMMA_SPACE)
        head == <<"I", "N", "S", "E", "R", "T", " ", "I", "N", "T", "O", " ">>
                    \o <<BACKQUOTE>> \o table_name \o <<BACKQUOTE, " ", "(">>
                    \o comma_separated_columns \o <<")">>
                    \o <<"\n", "V", "A", "L", "U", "E", "S", "\n">>
        body == get_query_string_of_records(records, columns, datatypes)
    IN  IF body.status = "raised" THEN body ELSE Returned(head \o body.value)

\* the datatypes __wrap_value_by_sql_datatype has a branch for
SqlDatatypes == {"integer", "float", "string", "date", "timestamp", "boolean"}

\* the datatypes a caller's mapper may name
GivenDatatypes == SqlDatatypes \cup {"varchar"}

QueryColumns == <<"x", "y">>

\* None, float('nan') and a whole number
CellValues ==
    { [kind |-> "None", text |-> <<"N", "o", "n", "e">>],
      [kind |-> "nan", text |-> <<"n", "a", "n">>],
      [kind |-> "int", text |-> <<"7">>] }

QueryRecords == [{"x", "y"} -> CellValues]

QueryTables ==
    UNION { [1..n -> QueryRecords] : n \in 0..MaxRecords }

InsertQueryInit ==
    /\ \E rows \in QueryTables, mapper \in [{"x", "y"} -> GivenDatatypes] :
          util_call = [fn |-> "generate_insert_query",
                       data |-> [columns |-> QueryColumns, rows |-> rows],
                       table_name |-> <<"t">>,
                       column_to_datatype_mapper |-> mapper]
    /\ util_out = [status |-> "none"]

\* the call ends in the ValueError of __wrap_value_by_sql_datatype
InsertQueryRaise ==
    /\ util_call.fn = "generate_insert_query"
    /\ util_out.status = "none"
    /\ LET out == generate_insert_query(util_call.data, util_call.table_name,
                                        util_call.column_to_datatype_mapper)
       IN  /\ out.status = "raised"
           /\ util_out' = out
    /\ UNCHANGED <<util_call, partVars, bucketVars, rankVars>>

\* the call returns the query
InsertQueryReturn ==
    /\ util_call.fn = "generate_insert_query"
    /\ util_out.status = "none"
    /\ LET out == generate_insert_query(util_call.data, util_call.table_name,
                                        util_call.column_to_datatype_mapper)
       IN  /\ out.status = "returned"
           /\ util_out' = out
    /\ UNCHANGED <<util_call, partVars, bucketVars, rankVars>>

(***************************************************************************)
(* Calls of the four functions of core/string_ops.py.                      *)
(***************************************************************************)
MaxTextLen == 3

MaxNegChars == 2

StringOpsFunctions ==
    {"get_first_n_characters", "get_last_n_characters",
     "remove_first_n_characters", "remove_last_n_characters"}

Texts == UNION { [1..n -> {"a", "b"}] : n \in 0..MaxTextLen }

NumChars == (0 - MaxNegChars)..(MaxTextLen + 1)

StringOpsInit ==
    /\ \E fn \in StringOpsFunctions, text \in Texts, num_chars \in NumChars :
          util_call = [fn |-> fn, text |-> text, num_chars |-> num_chars]
    /\ util_out = [status |-> "none"]

StringOpsResult(fn, text, num_chars) ==
    CASE fn = "get_first_n_characters" -> get_first_n_characters(text, num_chars)
      [] fn = "get_last_n_characters" -> get_last_n_characters(text, num_chars)
      [] fn = "remove_first_n_characters" -> remove_first_n_characters(text, num_chars)
      [] fn = "remove_last_n_characters" -> remove_last_n_characters(text, num_chars)

\* the call ends in the ValueError of __raise_error_if_num_chars_is_negative
StringOpsRaise ==
    /\ util_call.fn \in StringOpsFunctions
    /\ util_out.status = "none"
    /\ LET out == StringOpsResult(util_call.fn, util_call.text, util_call.num_chars)
       IN  /\ out.status = "raised"
           /\ util_out' = out
    /\ UNCHANGED <<util_call, partVars, bucketVars, rankVars>>

\* the call returns its slice of the text
StringOpsReturn ==
    /\ util_call.fn \in StringOpsFunctions
    /\ util_out.status = "none"
    /\ LET out == StringOpsResult(util_call.fn, util_call.text, util_call.num_chars)
       IN  /\ out.status = "returned"
           /\ util_out' = out
    /\ UNCHANGED <<util_call, partVars, bucketVars, rankVars>>

(***************************************************************************)
(* general/utils.py: filter_list_by_offset.  An Optional[int] argument is  *)
(* given or not (None); value is read only when it is given.               *)
(***************************************************************************)
MaxListObjLen == 27

MaxOffset == 4

MaxLimit == 27

MaxNegArg == 2

default_offset == 1

default_limit == 25

max_limit == 25

NoneArg == [given |-> FALSE, value |-> 0]

IntArg(n) == [given |-> TRUE, value |-> n]

\* `not x` of an Optional[int]: None and 0 are falsy
Falsy(x) == ~x.given \/ x.value = 0

\* the limit without lines 246-247: a limit above max_limit is kept
EffectiveLimitUncapped(limit) ==
    LET l1 == IF Falsy(limit) THEN default_limit ELSE limit.value
    IN  IF l1 <= 0 THEN default_limit ELSE l1

\* lines 240-241 and 244-247: the limit used by the slice
EffectiveLimit(limit) ==
    LET l1 == IF Falsy(limit) THEN default_limit ELSE limit.value
        l2 == IF l1 <= 0 THEN default_limit ELSE l1
    IN  IF l2 > max_limit THEN max_limit ELSE l2

\* lines 238-239 and 242-243: the offset used by the slice
EffectiveOffset(offset) ==
    LET o1 == IF Falsy(offset) THEN default_offset ELSE offset.value
    IN  IF o1 <= 0 THEN default_offset ELSE o1

filter_list_by_offset(list_obj, offset, limit) ==
    Slice(list_obj, EffectiveOffset(offset) - 1,
          EffectiveOffset(offset) + EffectiveLimit(limit) - 1)

\* lists of distinct elements, so that a result shows which positions it took
ListObjs == { [i \in 1..n |-> i] : n \in 0..MaxListObjLen }

Offsets == {NoneArg} \cup { IntArg(n) : n \in (0 - MaxNegArg)..MaxOffset }

Limits == {NoneArg} \cup { IntArg(n) : n \in (0 - MaxNegArg)..MaxLimit }

FilterListInit ==
    /\ \E list_obj \in ListObjs, offset \in Offsets, limit \in Limits :
          util_call = [fn |-> "filter_list_by_offset", list_obj |-> list_obj,
                       offset |-> offset, limit |-> limit]
    /\ util_out = [status |-> "none"]

FilterListReturn ==
    /\ util_call.fn = "filter_list_by_offset"
    /\ util_out.status = "none"
    /\ util_out' = Returned(filter_list_by_offset(util_call.list_obj, util_call.offset,
                                                  util_call.limit))
    /\ UNCHANGED <<util_call, partVars, bucketVars, rankVars>>

(***************************************************************************)
(* data_wrangler/transform.py: partition_dataframe and                     *)
(* add_partitioning_column.  Both call get_indices_for_partitioning with   *)
(* the number of rows, and slice the table at the boundaries it returns.   *)
(***************************************************************************)
\* the tables partitioned: one column, up to MaxLen rows
PartitionTables ==
    UNION {{[columns |-> <<"id">>, rows |-> [i \in 1..n |-> [id |-> ids[i]]]] :
               ids \in [1..n -> {1, 2}]} : n \in 0..MaxLen}

\* pd.DataFrame()
EmptyFrame == [columns |-> <<>>, rows |-> <<>>]

\* a slip that takes the row at idx_end too
ILocThroughEnd(table, idx_start, idx_end) ==
    [table EXCEPT !.rows = Slice(table.rows, idx_start, idx_end + 1)]

\* df.iloc[idx_start : idx_end]
ILoc(table, idx_start, idx_end) ==
    [table EXCEPT !.rows = Slice(table.rows, idx_start, idx_end)]

\* pd.concat(objs=[left, right], ignore_index=True, sort=False) of two frames
\* of which every one with rows has all the columns
Concat(left, right) ==
    [columns |-> left.columns \o
                    SelectSeq(right.columns, LAMBDA c : c \notin SeqRange(left.columns)),
     rows |-> left.rows \o right.rows]

\* the for-loop of partition_dataframe from pass i on
RECURSIVE PartitionDataframeLoop(_, _, _, _)
PartitionDataframeLoop(data, indices, list_of_dataframes, i) ==
    IF i > Len(indices) - 1 THEN list_of_dataframes
    ELSE LET idx_start == indices[i]
             idx_end == indices[i + 1]
             df_by_partition == ILoc(data, idx_start, idx_end)
         IN  PartitionDataframeLoop(data, indices,
                                    Append(list_of_dataframes, df_by_partition), i + 1)

\* the for-loop of add_partitioning_column from pass i on
RECURSIVE AddPartitioningLoop(_, _, _, _, _, _)
AddPartitioningLoop(df, indices, column_name, partition_number, df_partitioned, i) ==
    IF i > Len(indices) - 1 THEN df_partitioned
    ELSE LET number == partition_number + 1
             idx_start == indices[i]
             idx_end == indices[i + 1]
             sliced == ILoc(df, idx_start, idx_end)
             df_by_partition ==
                 SetColumn(sliced, column_name, [k \in 1..Len(sliced.rows) |-> number])
         IN  AddPartitioningLoop(df, indices, column_name, number,
                                 Concat(df_partitioned, df_by_partition), i + 1)

PartitionFrameInit ==
    /\ \E fn \in {"partition_dataframe", "add_partitioning_column"},
          data \in PartitionTables :
          util_call = [fn |-> fn, data |-> data, column_name |-> "partition"]
    /\ util_out = [status |-> "none"]
    /\ pc = "call"
    /\ length_of_iterable = Len(util_call.data.rows)
    /\ num_partitions \in (0 - MaxNegP)..MaxP
    /\ indices_for_partitioning = <<>>
    /\ min_length_per_partition = 0
    /\ num_residuals = 0
    /\ raised = ""

\* the ValueError of get_indices_for_partitioning ends the call
PartitionFrameRaise ==
    /\ util_call.fn \in {"partition_dataframe", "add_partitioning_column"}
    /\ util_out.status = "none"
    /\ pc = "raised"
    /\ util_out' = [status |-> "raised", error |-> "ValueError", message |-> raised]
    /\ UNCHANGED <<util_call, partVars, bucketVars, rankVars>>

\* partition_dataframe slices at the boundaries and returns the list
PartitionDataframeReturn ==
    /\ util_call.fn = "partition_dataframe"
    /\ util_out.status = "none"
    /\ pc = "done"
    /\ util_out' = Returned(PartitionDataframeLoop(util_call.data,
                                                   indices_for_partitioning, <<>>, 1))
    /\ UNCHANGED <<util_call, partVars, bucketVars, rankVars>>

\* add_partitioning_column labels the slices of a copy and returns them as one
AddPartitioningColumnReturn ==
    /\ util_call.fn = "add_partitioning_column"
    /\ util_out.status = "none"
    /\ pc = "done"
    /\ util_out' = Returned(AddPartitioningLoop(util_call.data, indices_for_partitioning,
                                                util_call.column_name, 0, EmptyFrame, 1))
    /\ UNCHANGED <<util_call, partVars, bucketVars, rankVars>>

(***************************************************************************)
(* email_ops/email_ops.py.  A filepath is what os.path.splitext makes of   *)
(* it: the root and the extension with its dot.  util_out holds the call   *)
(* and the objects it works on: the payloads of the multipart message, the *)
(* position of the for-loop, the SMTP connection and what was sent.        *)
(***************************************************************************)
MaxAttachments == 3

\* the key of extension_to_mime_subtype_mapper with a subtype of its own
PDF_EXT == <<"p", "d", "f">>

\* the keys of extension_to_mime_subtype_mapper, in their order
supported_extensions ==
    << <<"c", "s", "v">>, <<"d", "o", "c", "x">>, PDF_EXT, <<"x", "l", "s">>,
       <<"x", "l", "s", "x">> >>

\* extension_to_mime_subtype_mapper.get(extension, None)
mime_subtype_of(extension) ==
    IF extension = PDF_EXT THEN "pdf"
    ELSE IF extension \in SeqRange(supported_extensions) THEN "octet-stream"
    ELSE "None"

\* str.lower() of the letters the extensions are written with
LowerChar(c) ==
    CASE c = "P" -> "p" [] c = "D" -> "d" [] c = "F" -> "f" [] OTHER -> c

Lower(text) == [i \in 1..Len(text) |-> LowerChar(text[i])]

\* get_extension (general/data_io.py): os.path.splitext(filepath)[-1][1:]
get_extension(filepath) == SliceFrom(filepath.ext, 1)

\* the extensions of the files attached: the five supported ones, one in
\* capitals, one unsupported and none at all
SplitExtensions ==
    { <<".">> \o supported_extensions[k] : k \in 1..Len(supported_extensions) }
        \cup { <<".", "P", "D", "F">>, <<".", "t", "x", "t">>, <<>> }

Filepaths == [root : {"file"}, ext : SplitExtensions]

FilepathLists == UNION { [1..n -> Filepaths] : n \in 0..MaxAttachments }

\* MIMEText(_text=body, _subtype='html')
BodyPayload == [maintype |-> "text", subtype |-> "html", filepath |-> [root |-> "", ext |-> <<>>]]

\* MIMEBase(_maintype='application', _subtype=mime_subtype) with the file read
\* into it and its Content-Disposition header
AttachmentPayload(filepath, mime_subtype) ==
    [maintype |-> "application", subtype |-> mime_subtype, filepath |-> filepath]

EmailInit ==
    \/ /\ \E filepaths \in FilepathLists, msg \in {<<>>, <<BodyPayload>>} :
             /\ util_call = [fn |-> "add_attachments_to_multipart_obj",
                             multipart_obj |-> msg,
                             filepaths_given |-> TRUE,
                             filepaths_to_attachments |-> filepaths]
             /\ util_out = [status |-> "attaching", msg |-> msg, next |-> 1,
                            server |-> "none", sent |-> <<>>, error |-> "none"]
    \/ /\ \E filepaths \in FilepathLists, given \in BOOLEAN :
             /\ given \/ filepaths = <<>>
             /\ util_call = [fn |-> "send_email",
                             multipart_obj |-> <<>>,
                             filepaths_given |-> given,
                             filepaths_to_attachments |-> filepaths]
             /\ util_out = [status |-> "none", msg |-> <<>>, next |-> 1,
                            server |-> "none", sent |-> <<>>, error |-> "none"]

\* send_email, lines 79-85: the message with its body
SendEmailBuild ==
    /\ util_call.fn = "send_email"
    /\ util_out.status = "none"
    /\ util_out' = [util_out EXCEPT
                       !.msg = <<BodyPayload>>,
                       !.status = IF util_call.filepaths_given THEN "attaching"
                                  ELSE "ready"]
    /\ UNCHANGED <<util_call, partVars, bucketVars, rankVars>>

\* one pass of the for-loop with a supported extension: the file is attached
AttachStep ==
    /\ util_out.status = "attaching"
    /\ util_out.next <= Len(util_call.filepaths_to_attachments)
    /\ LET filepath == util_call.filepaths_to_attachments[util_out.next]
           extension == get_extension(filepath)
           mime_subtype == mime_subtype_of(Lower(extension))
       IN  /\ mime_subtype # "None"
           /\ util_out' = [util_out EXCEPT
                              !.msg = Append(@, AttachmentPayload(filepath, mime_subtype)),
                              !.next = @ + 1]
    /\ UNCHANGED <<util_call, partVars, bucketVars, rankVars>>

\* one pass of the for-loop with an unsupported extension: raise Exception
AttachRaise ==
    /\ util_out.status = "attaching"
    /\ util_out.next <= Len(util_call.filepaths_to_attachments)
    /\ LET filepath == util_call.filepaths_to_attachments[util_out.next]
           extension == get_extension(filepath)
           mime_subtype == mime_subtype_of(Lower(extension))
       IN  /\ mime_subtype = "None"
           /\ util_out' = [util_out EXCEPT
                              !.status = "raised",
                              !.error = [type |-> "Exception", filepath |-> filepath,
                                         supported |-> supported_extensions]]
    /\ UNCHANGED <<util_call, partVars, bucketVars, rankVars>>

\* the for-loop ends: return multipart_obj
AttachReturn ==
    /\ util_out.status = "attaching"
    /\ util_out.next > Len(util_call.filepaths_to_attachments)
    /\ util_out' = [util_out EXCEPT
                       !.status = IF util_call.fn = "send_email" THEN "ready"
                                  ELSE "returned"]
    /\ UNCHANGED <<util_call, partVars, bucketVars, rankVars>>

\* send_email, lines 90-100: connect, log in, send the message, quit
SendEmailSubmit ==
    /\ util_call.fn = "send_email"
    /\ util_out.status = "ready"
    /\ util_out' = [util_out EXCEPT
                       !.server = "quit",
                       !.sent = Append(@, util_out.msg),
                       !.status = "returned"]
    /\ UNCHANGED <<util_call, partVars, bucketVars, rankVars>>

(***************************************************************************)
(* The specifications.                                                     *)
(***************************************************************************)
InitPartition == PartitionInit /\ BucketIdle /\ RankIdle /\ UtilIdle

NextPartition ==
    \/ RaiseZeroPartitions
    \/ SetUp
    \/ ResidualStep
    \/ ResidualExit
    \/ FillStep
    \/ Return

SpecPartition == InitPartition /\ [][NextPartition]_vars

\* the call keeps running: a statement that can be executed is executed
SpecPartitionFair == SpecPartition /\ WF_vars(NextPartition)

InitBuckets == PartIdle /\ BucketInit /\ RankIdle /\ UtilIdle

NextBuckets ==
    \/ DateWiseForward
    \/ DateWiseBackward
    \/ MonthWiseForward
    \/ MonthWiseBackward

SpecBuckets == InitBuckets /\ [][NextBuckets]_vars

InitBucketCalls == PartIdle /\ BucketCallsInit /\ RankIdle /\ UtilIdle

NextBucketCalls ==
    \/ CountedForward
    \/ CountedBackward

SpecBucketCalls == InitBucketCalls /\ [][NextBucketCalls]_vars

InitRank == PartIdle /\ BucketIdle /\ RankInit /\ UtilIdle

NextRank ==
    \/ RankInvalidMethod
    \/ RankLengthMismatch
    \/ RankEmptyIndexError
    \/ RankReturn
    \/ AddRankingLengthMismatch
    \/ AddRankingReturn
    \/ CallerChangesResult

SpecRank == InitRank /\ [][NextRank]_vars

InitInsertQuery == PartIdle /\ BucketIdle /\ RankIdle /\ InsertQueryInit

NextInsertQuery ==
    \/ InsertQueryRaise
    \/ InsertQueryReturn

SpecInsertQuery == InitInsertQuery /\ [][NextInsertQuery]_vars

InitStringOps == PartIdle /\ BucketIdle /\ RankIdle /\ StringOpsInit

NextStringOps ==
    \/ StringOpsRaise
    \/ StringOpsReturn

SpecStringOps == InitStringOps /\ [][NextStringOps]_vars

InitFilterList == PartIdle /\ BucketIdle /\ RankIdle /\ FilterListInit

NextFilterList ==
    \/ FilterListReturn

SpecFilterList == InitFilterList /\ [][NextFilterList]_vars

InitPartitionFrame == PartitionFrameInit /\ BucketIdle /\ RankIdle

NextPartitionFrame ==
    \/ RaiseZeroPartitions
    \/ SetUp
    \/ ResidualStep
    \/ ResidualExit
    \/ FillStep
    \/ Return
    \/ PartitionFrameRaise
    \/ PartitionDataframeReturn
    \/ AddPartitioningColumnReturn

SpecPartitionFrame == InitPartitionFrame /\ [][NextPartitionFrame]_vars

InitEmail == PartIdle /\ BucketIdle /\ RankIdle /\ EmailInit

NextEmail ==
    \/ SendEmailBuild
    \/ AttachStep
    \/ AttachRaise
    \/ AttachReturn
    \/ SendEmailSubmit

SpecEmail == InitEmail /\ [][NextEmail]_vars

\* the units together
Init ==
    \/ InitPartition
    \/ InitBuckets
    \/ InitBucketCalls
    \/ InitRank
    \/ InitInsertQuery
    \/ InitStringOps
    \/ InitFilterList
    \/ InitPartitionFrame
    \/ InitEmail

Next ==
    \/ NextPartition
    \/ NextBuckets
    \/ NextBucketCalls
    \/ NextRank
    \/ NextInsertQuery
    \/ NextStringOps
    \/ NextFilterList
    \/ NextPartitionFrame
    \/ NextEmail

Spec == Init /\ [][Next]_vars

(***************************************************************************)
(* Properties of get_indices_for_partitioning (SpecPartition).             *)
(***************************************************************************)
\* the size of partition i of a boundary list
PartitionSize(b, i) == b[i + 1] - b[i]

\* C1: for L >= 0 and P >= 1 the call returns (it does not raise) a list of
\* exactly P+1 integers that starts at 0, ends at L, is non-decreasing, and
\* whose largest and smallest partition sizes differ by at most 1.
C1_PartitionCoverage ==
    (num_partitions >= 1) =>
        /\ pc # "raised"
        /\ (pc = "done") =>
              LET b == indices_for_partitioning
                  P == num_partitions
              IN  /\ Len(b) = P + 1
                  /\ b[1] = 0
                  /\ b[P + 1] = length_of_iterable
                  /\ \A i \in 1..P : PartitionSize(b, i) >= 0
                  /\ \A i, j \in 1..P : PartitionSize(b, i) - PartitionSize(b, j) <= 1

C1_Witness ==
    /\ pc = "done"
    /\ num_partitions >= 3
    /\ length_of_iterable > num_partitions
    /\ length_of_iterable % num_partitions >= 2

\* C2: for L >= 0 and P >= 1 the first (L mod P) partitions have size
\* floor(L/P)+1 and the other P - (L mod P) have size floor(L/P); L = 0 gives
\* P+1 zeros; when P > L the first L partitions have size 1 and the later
\* ones are empty.
C2_ResidualsFirst ==
    (pc = "done" /\ num_partitions >= 1) =>
        LET b == indices_for_partitioning
            P == num_partitions
            L == length_of_iterable
        IN  /\ Len(b) = P + 1
            /\ \A i \in 1..P :
                  PartitionSize(b, i) = (L \div P) + (IF i <= L % P THEN 1 ELSE 0)
            /\ (L = 0) => (b = [i \in 1..(P + 1) |-> 0])
            /\ (P > L) => \A i \in 1..P :
                  PartitionSize(b, i) = (IF i <= L THEN 1 ELSE 0)

C2_Witness ==
    /\ pc = "done"
    /\ length_of_iterable >= 2
    /\ num_partitions > length_of_iterable + 1

\* C3: with num_partitions = 0 the call raises ValueError("Number of
\* partitions cannot be 0") for every L, before any boundary is computed, and
\* returns no list.
C3_ZeroPartitionsRaises ==
    (num_partitions = 0 /\ pc \notin {"call", "idle"}) =>
        /\ pc = "raised"
        /\ raised = "Number of partitions cannot be 0"
        /\ indices_for_partitioning = <<>>

C3_Witness ==
    /\ pc = "raised"
    /\ num_partitions = 0
    /\ length_of_iterable = MaxLen

(***************************************************************************)
(* Properties of the bucketers (SpecBuckets).  Returned dates are read     *)
(* back from their representation and compared on the calendar itself.     *)
(***************************************************************************)
DateWiseCalled == bucketer.cls = "DateWiseBucketer" /\ call.method # "none"

MonthWiseCalled == bucketer.cls = "MonthWiseBucketer" /\ call.method # "none"

\* a returned start or end as a date
AsDate(x) == IF call.as_strings THEN DateOf(parse_date_string(x)) ELSE x

BucketStart(i) == AsDate(buckets[i][1])

BucketEnd(i) == AsDate(buckets[i][2])

AnchorDate == DateOf(parse_date_string(bucketer.date_string))

\* the last day of a calendar month
CalendarLastDay(year, month) ==
    CASE month \in {1, 3, 5, 7, 8, 10, 12} -> 31
      [] month \in {4, 6, 9, 11} -> 30
      [] OTHER ->
           IF (year % 400 = 0) \/ (year % 4 = 0 /\ year % 100 # 0) THEN 29 ELSE 28

NextDay(d) ==
    IF d.day < CalendarLastDay(d.year, d.month) THEN [d EXCEPT !.day = d.day + 1]
    ELSE IF d.month < 12 THEN [d EXCEPT !.month = d.month + 1, !.day = 1]
    ELSE [year |-> d.year + 1, month |-> 1, day |-> 1]

PrevDay(d) ==
    IF d.day > 1 THEN [d EXCEPT !.day = d.day - 1]
    ELSE IF d.month > 1
         THEN [d EXCEPT !.month = d.month - 1,
                        !.day = CalendarLastDay(d.year, d.month - 1)]
    ELSE [year |-> d.year - 1, month |-> 12, day |-> 31]

\* the date days after d (before d, if days is negative), one day at a time
RECURSIVE PlusDays(_, _)
PlusDays(d, days) ==
    IF days = 0 THEN d
    ELSE IF days > 0 THEN PlusDays(NextDay(d), days - 1)
    ELSE PlusDays(PrevDay(d), days + 1)

\* chronological order of two dates
Before(d, e) ==
    \/ d.year < e.year
    \/ d.year = e.year /\ d.month < e.month
    \/ d.year = e.year /\ d.month = e.month /\ d.day < e.day

NotAfter(d, e) == d = e \/ Before(d, e)

\* buckets i and j share a date
Overlap(i, j) ==
    /\ NotAfter(BucketStart(i), BucketEnd(j))
    /\ NotAfter(BucketStart(j), BucketEnd(i))

\* C4, as claimed: for every configuration (is_inclusive included) with
\* num_days_per_bucket >= 1, consecutive buckets of get_forward_buckets and of
\* get_backward_buckets satisfy end + 1 day = next start, in ascending order.
C4_AsClaimed ==
    (DateWiseCalled /\ bucketer.num_days_per_bucket >= 1) =>
        \A i \in 1..(Len(buckets) - 1) :
            /\ NextDay(BucketEnd(i)) = BucketStart(i + 1)
            /\ NotAfter(BucketStart(i), BucketStart(i + 1))

\* C4, amended: with is_inclusive = False and num_days_per_bucket >= 1,
\* consecutive buckets of get_forward_buckets and of get_backward_buckets
\* satisfy end + 1 day = next start, and the list is in ascending
\* chronological order in both directions.
C4_ContiguousWhenExclusive ==
    (DateWiseCalled /\ bucketer.num_days_per_bucket >= 1 /\ ~bucketer.is_inclusive) =>
        \A i \in 1..(Len(buckets) - 1) :
            /\ NextDay(BucketEnd(i)) = BucketStart(i + 1)
            /\ Before(BucketStart(i), BucketStart(i + 1))
            /\ Before(BucketEnd(i), BucketEnd(i + 1))

C4_Witness ==
    /\ DateWiseCalled
    /\ call.method = "get_backward_buckets"
    /\ call.as_strings
    /\ ~bucketer.is_inclusive
    /\ bucketer.num_days_per_bucket >= 2
    /\ Len(buckets) >= 3
    /\ BucketStart(1).year < BucketEnd(Len(buckets)).year

\* C5: get_forward_buckets with is_inclusive = False returns exactly
\* num_buckets buckets, the k-th (k = 0..num_buckets-1) with
\* start = anchor + k*num_days_per_bucket days and
\* end = start + (num_days_per_bucket - 1) days; the first starts on the anchor.
C5_ForwardBucketFormula ==
    (DateWiseCalled /\ call.method = "get_forward_buckets" /\ ~bucketer.is_inclusive) =>
        /\ Len(buckets) = bucketer.num_buckets
        /\ BucketStart(1) = AnchorDate
        /\ \A k \in 0..(bucketer.num_buckets - 1) :
              LET start == PlusDays(AnchorDate, k * bucketer.num_days_per_bucket)
              IN  /\ BucketStart(k + 1) = start
                  /\ BucketEnd(k + 1) = PlusDays(start, bucketer.num_days_per_bucket - 1)
                  /\ call.as_strings =>
                        /\ buckets[k + 1][1] = FormatDate(start)
                        /\ Len(buckets[k + 1][2]) = 10

C5_Witness ==
    /\ DateWiseCalled
    /\ call.method = "get_forward_buckets"
    /\ ~bucketer.is_inclusive
    /\ bucketer.num_days_per_bucket >= 3
    /\ Len(buckets) >= 3
    /\ AnchorDate = [year |-> MaxYear, month |-> 2, day |-> 28]

\* C6: with is_inclusive = False, get_backward_buckets on anchor A with n
\* buckets of s days returns the list get_forward_buckets returns on anchor
\* A - (n*s - 1) days with the same n and s, and its final bucket ends on A.
C6_BackwardMirrorsForward ==
    (DateWiseCalled /\ call.method = "get_backward_buckets" /\ ~bucketer.is_inclusive) =>
        LET span == bucketer.num_buckets * bucketer.num_days_per_bucket - 1
            mirror == [bucketer EXCEPT
                          !.date_string = FormatDate(PlusDays(AnchorDate, 0 - span))]
        IN  /\ buckets = DateWiseBucketer_get_forward_buckets(mirror, call.as_strings)
            /\ Len(buckets) = bucketer.num_buckets
            /\ BucketEnd(Len(buckets)) = AnchorDate

C6_Witness ==
    /\ DateWiseCalled
    /\ call.method = "get_backward_buckets"
    /\ ~bucketer.is_inclusive
    /\ bucketer.num_days_per_bucket >= 2
    /\ Len(buckets) >= 2
    /\ BucketStart(1).month # AnchorDate.month

\* the calls C7 is about: DateWiseBucketer with num_days_per_bucket >= 1, and
\* MonthWiseBucketer
C7_Covered ==
    \/ DateWiseCalled /\ bucketer.num_days_per_bucket >= 1
    \/ MonthWiseCalled

\* C7, as claimed: every returned bucket has start <= end, and no two buckets
\* of one returned list overlap.
C7_AsClaimed ==
    C7_Covered =>
        /\ \A i \in 1..Len(buckets) : NotAfter(BucketStart(i), BucketEnd(i))
        /\ \A i, j \in 1..Len(buckets) : (i # j) => ~Overlap(i, j)

\* C7, amended: every returned bucket has start <= end; no two buckets of one
\* returned list overlap when the list comes from MonthWiseBucketer or from a
\* DateWiseBucketer with is_inclusive = False.
C7_NoOverlapWhenExclusive ==
    C7_Covered =>
        /\ \A i \in 1..Len(buckets) : NotAfter(BucketStart(i), BucketEnd(i))
        /\ (MonthWiseCalled \/ ~bucketer.is_inclusive) =>
              \A i, j \in 1..Len(buckets) : (i # j) => ~Overlap(i, j)

C7_Witness ==
    /\ DateWiseCalled
    /\ ~bucketer.is_inclusive
    /\ bucketer.num_days_per_bucket = 1
    /\ Len(buckets) >= 3
    /\ ~call.as_strings

\* C8: every bucket of MonthWiseBucketer starts on day 1 of a calendar month
\* and ends on the last calendar day of that same month (28/29 for February
\* by leap year, 30 or 31 otherwise), across year boundaries too.
C8_WholeCalendarMonths ==
    MonthWiseCalled =>
        \A i \in 1..Len(buckets) :
            /\ BucketStart(i).day = 1
            /\ BucketStart(i).year = BucketEnd(i).year
            /\ BucketStart(i).month = BucketEnd(i).month
            /\ BucketEnd(i).day = CalendarLastDay(BucketEnd(i).year, BucketEnd(i).month)

C8_Witness ==
    /\ MonthWiseCalled
    /\ BucketStart(1).year # BucketEnd(Len(buckets)).year
    /\ \E i \in 1..Len(buckets) : BucketEnd(i).month = 2 /\ BucketEnd(i).day = 29
    /\ \E i \in 1..Len(buckets) : BucketEnd(i).month = 2 /\ BucketEnd(i).day = 28

\* the months since year 0 of a date
MonthIndex(d) == d.year * 12 + (d.month - 1)

\* C9: MonthWiseBucketer returns exactly num_buckets buckets in ascending
\* order; the k-th from the anchor is the month k months after the anchor
\* month (forward) or k months before it (backward), the anchor month being
\* first forward and last backward.
C9_KthMonthFromAnchor ==
    MonthWiseCalled =>
        LET n == bucketer.num_buckets
            anchor == bucketer.year * 12 + (bucketer.month - 1)
        IN  /\ Len(buckets) = n
            /\ \A i \in 1..n :
                  LET k == IF call.method = "get_forward_buckets" THEN i - 1 ELSE n - i
                      want == IF call.method = "get_forward_buckets"
                              THEN anchor + k ELSE anchor - k
                  IN  /\ MonthIndex(BucketStart(i)) = want
                      /\ MonthIndex(BucketEnd(i)) = want

C9_Witness ==
    /\ MonthWiseCalled
    /\ call.method = "get_backward_buckets"
    /\ bucketer.month = 2
    /\ Len(buckets) >= MaxMonthBuckets
    /\ call.as_strings

(***************************************************************************)
(* Properties of rank_and_sort (SpecRank).                                 *)
(***************************************************************************)
RankReturned == rank_args.fn = "rank_and_sort" /\ rank_out.status = "returned"

\* the rank column of the returned table, top to bottom
ReturnedRanks ==
    [i \in 1..Len(rank_out.value.rows) |->
        rank_out.value.rows[i][rank_args.rank_column_name]]

\* C10: with method = 'row_number' the N sorted rows get the ranks 1, 2, ..., N
\* in that order: a permutation of 1..N without repeats, strictly increasing
\* along the sorted order, also across rows with equal key-tuples.
C10_RowNumberRanks ==
    (RankReturned /\ rank_args.method = "row_number") =>
        LET N == Len(rank_args.data.rows)
        IN  /\ Len(rank_out.value.rows) = N
            /\ \A i \in 1..N : ReturnedRanks[i] = i
            /\ {ReturnedRanks[i] : i \in 1..N} = 1..N
            /\ \A i \in 1..(N - 1) : ReturnedRanks[i] < ReturnedRanks[i + 1]

C10_Witness ==
    /\ RankReturned
    /\ rank_args.method = "row_number"
    /\ Len(rank_args.rank_by) = 2
    /\ Len(rank_out.value.rows) = MaxRows
    /\ rank_out.value.rows[1].id # 1
    /\ \E i \in 1..(MaxRows - 1) :
          KeyTuple(rank_out.value.rows[i], rank_args.rank_by)
              = KeyTuple(rank_out.value.rows[i + 1], rank_args.rank_by)

\* the key-tuple of row i of the returned table
ReturnedKey(i) == KeyTuple(rank_out.value.rows[i], rank_args.rank_by)

\* C11: with method = 'dense_rank' on a table with rows, the first sorted row
\* has rank 1 and every later row has the rank of the row before it when its
\* whole key-tuple equals that row's, and that rank plus 1 otherwise; so a
\* row's rank is the number of distinct key-tuples down to it.  The docstring
\* table a,a,a,a,b,b,c,d,d,e,e,f,g,g gets 1,1,1,1,2,2,3,4,4,5,5,6,7,7.
C11_DenseRank ==
    (RankReturned /\ rank_args.method = "dense_rank"
        /\ Len(rank_args.data.rows) > 0) =>
          LET N == Len(rank_args.data.rows)
          IN  /\ get_dense_rankings(DocExample, <<"column">>)
                     = <<1, 1, 1, 1, 2, 2, 3, 4, 4, 5, 5, 6, 7, 7>>
              /\ Len(rank_out.value.rows) = N
              /\ ReturnedRanks[1] = 1
              /\ \A i \in 2..N :
                    ReturnedRanks[i] = IF ReturnedKey(i) = ReturnedKey(i - 1)
                                       THEN ReturnedRanks[i - 1]
                                       ELSE ReturnedRanks[i - 1] + 1
              /\ \A i \in 1..N :
                    ReturnedRanks[i] = Cardinality({ReturnedKey(j) : j \in 1..i})

\* three rows ranked by two keys, the first key alike throughout: a tie and a
\* rise that only the second key tells apart
C11_Witness ==
    /\ RankReturned
    /\ rank_args.method = "dense_rank"
    /\ Len(rank_args.rank_by) = 2
    /\ Len(rank_out.value.rows) = MaxRows
    /\ \A i \in 1..MaxRows : rank_out.value.rows[i].a = rank_out.value.rows[1].a
    /\ \E i, j \in 2..MaxRows :
          /\ ReturnedRanks[i] = ReturnedRanks[i - 1]
          /\ ReturnedRanks[j] = ReturnedRanks[j - 1] + 1

\* the rows of the returned table whose key-tuple is that of row i
ReturnedGroup(i) == {j \in 1..Len(rank_out.value.rows) : ReturnedKey(j) = ReturnedKey(i)}

\* C12: with method = 'non_dense_rank' on a table with rows, the first sorted
\* row has rank 1, a row whose key-tuple equals the previous row's repeats its
\* rank, and the first row of a new group gets the previous rank plus the size
\* of the previous group; so a row's rank is 1 plus the number of rows in all
\* earlier groups.  The docstring table a,a,a,a,b,b,c,d,d,e,e,f,g,g gets
\* 1,1,1,1,5,5,7,8,8,10,10,12,13,13.
C12_NonDenseRank ==
    (RankReturned /\ rank_args.method = "non_dense_rank"
        /\ Len(rank_args.data.rows) > 0) =>
          LET N == Len(rank_args.data.rows)
          IN  /\ get_non_dense_rankings(DocExample, <<"column">>)
                     = <<1, 1, 1, 1, 5, 5, 7, 8, 8, 10, 10, 12, 13, 13>>
              /\ Len(rank_out.value.rows) = N
              /\ ReturnedRanks[1] = 1
              /\ \A i \in 2..N :
                    ReturnedRanks[i] =
                        IF ReturnedKey(i) = ReturnedKey(i - 1)
                        THEN ReturnedRanks[i - 1]
                        ELSE ReturnedRanks[i - 1] + Cardinality(ReturnedGroup(i - 1))
              /\ \A i \in 1..N :
                    ReturnedRanks[i] =
                        1 + Cardinality({j \in 1..(i - 1) : ReturnedKey(j) # ReturnedKey(i)})

\* a group of two rows followed by a new group: the rank jumps from 1 to 3
C12_Witness ==
    /\ RankReturned
    /\ rank_args.method = "non_dense_rank"
    /\ Len(rank_out.value.rows) = MaxRows
    /\ ReturnedKey(1) = ReturnedKey(2)
    /\ ReturnedRanks[2] = 1
    /\ \E i \in 3..MaxRows : ReturnedRanks[i] = 3

\* C13: for each of the three methods and every table with rows, the ranks
\* never decrease along the sorted order and the first rank is 1.
C13_RanksMonotone ==
    (RankReturned /\ rank_args.method \in SeqRange(method_options)
        /\ Len(rank_args.data.rows) > 0) =>
        LET N == Len(rank_args.data.rows)
        IN  /\ Len(rank_out.value.rows) = N
            /\ ReturnedRanks[1] = 1
            /\ \A i \in 1..(N - 1) : ReturnedRanks[i] <= ReturnedRanks[i + 1]

\* a descending sort on the first key whose ranks both stay and rise
C13_Witness ==
    /\ RankReturned
    /\ Len(rank_out.value.rows) = MaxRows
    /\ ~rank_args.ascending[1]
    /\ rank_out.value.rows[1].a > rank_out.value.rows[MaxRows].a
    /\ \E i, j \in 1..(MaxRows - 1) :
          /\ ReturnedRanks[i] = ReturnedRanks[i + 1]
          /\ ReturnedRanks[j] < ReturnedRanks[j + 1]

\* the largest rank of the returned table
MaxReturnedRank ==
    CHOOSE m \in SeqRange(ReturnedRanks) : \A r \in SeqRange(ReturnedRanks) : r <= m

\* C14: for a table of N >= 1 rows the largest dense rank is the number of
\* distinct rank_by key-tuples of the input, and the largest non-dense rank is
\* N - (size of the last tie-group of the sorted order) + 1.
C14_MaxRank ==
    (RankReturned /\ Len(rank_args.data.rows) > 0) =>
        LET N == Len(rank_args.data.rows)
        IN  /\ Len(rank_out.value.rows) = N
            /\ (rank_args.method = "dense_rank") =>
                  MaxReturnedRank =
                      Cardinality({KeyTuple(rank_args.data.rows[i], rank_args.rank_by) :
                                      i \in 1..N})
            /\ (rank_args.method = "non_dense_rank") =>
                  MaxReturnedRank = N - Cardinality(ReturnedGroup(N)) + 1

\* a dense ranking of three rows in two groups, the input not in sorted order
C14_Witness ==
    /\ RankReturned
    /\ rank_args.method = "dense_rank"
    /\ Len(rank_out.value.rows) = MaxRows
    /\ rank_out.value.rows[1].id # 1
    /\ MaxReturnedRank = 2
    /\ Cardinality(ReturnedGroup(MaxRows)) = 2

\* C15: a call of rank_and_sort whose method is none of the three options
\* fails, for every table and every rank_by and ascending, with a ValueError
\* whose message names the parameter `method`, the value received and the
\* allowed options; it is raised before anything is sorted or ranked and no
\* table is returned.
C15_InvalidMethodRaises ==
    (rank_args.fn = "rank_and_sort"
        /\ rank_args.method \notin {"row_number", "dense_rank", "non_dense_rank"}) =>
        IF rank_out.status = "idle" THEN ENABLED RankInvalidMethod
        ELSE /\ rank_out.status = "raised"
             /\ rank_out.error = "ValueError"
             /\ DOMAIN rank_out = {"status", "error", "option_name", "got", "expected"}
             /\ rank_out.option_name = "method"
             /\ rank_out.got = rank_args.method
             /\ rank_out.expected = <<"row_number", "dense_rank", "non_dense_rank">>
             /\ frames = <<rank_args.data>>

\* an invalid method together with lists of different lengths, on a full table
C15_Witness ==
    /\ rank_args.fn = "rank_and_sort"
    /\ rank_args.method = "bogus"
    /\ Len(rank_args.rank_by) # Len(rank_args.ascending)
    /\ Len(rank_args.data.rows) = MaxRows
    /\ rank_out.status = "raised"
    /\ rank_out.option_name = "method"

\* the call was made with rank_by and ascending of different lengths
LengthsDiffer == Len(rank_args.rank_by) # Len(rank_args.ascending)

\* the outcome is the ValueError that reports len(rank_by) and len(ascending),
\* in that order, with nothing sorted and no table returned
LengthErrorRaised ==
    /\ rank_out.status = "raised"
    /\ rank_out.error = "ValueError"
    /\ DOMAIN rank_out = {"status", "error", "lengths"}
    /\ rank_out.lengths = <<Len(rank_args.rank_by), Len(rank_args.ascending)>>
    /\ frames = <<rank_args.data>>

\* C16 as stated: every call of rank_and_sort or add_ranking_column with
\* rank_by and ascending of different lengths fails with the ValueError that
\* reports both lengths.
C16_AsClaimed ==
    (LengthsDiffer /\ rank_out.status # "idle") => LengthErrorRaised

\* C16: a call of add_ranking_column, or of rank_and_sort with one of the three
\* methods, with rank_by and ascending of different lengths fails with a
\* ValueError that reports len(rank_by) first and len(ascending) second, for
\* every pair of unequal lengths; it is raised before the table is sorted and
\* no table is returned.
C16_LengthMismatchRaises ==
    (LengthsDiffer
        /\ (rank_args.fn = "rank_and_sort" =>
               rank_args.method \in {"row_number", "dense_rank", "non_dense_rank"})) =>
        IF rank_out.status = "idle"
        THEN IF rank_args.fn = "rank_and_sort" THEN ENABLED RankLengthMismatch
             ELSE ENABLED AddRankingLengthMismatch
        ELSE LengthErrorRaised

\* two keys against one direction, on a full table
C16_Witness ==
    /\ rank_args.fn = "rank_and_sort"
    /\ rank_args.method = "dense_rank"
    /\ Len(rank_args.data.rows) = MaxRows
    /\ rank_out.status = "raised"
    /\ "lengths" \in DOMAIN rank_out
    /\ rank_out.lengths = <<2, 1>>

\* C17: a call of rank_and_sort, whether it returns or raises, leaves the
\* caller's table as it was passed: the same rows in the same order, the same
\* columns, no rank column.  The table returned is another object, so a later
\* change of it does not reach the input.
C17_InputUnchanged ==
    (rank_args.fn = "rank_and_sort") =>
        /\ frames[1] = rank_args.data
        /\ rank_args.rank_column_name \notin SeqRange(frames[1].columns)
        /\ (rank_out.status \in {"returned", "changed"}) =>
              /\ rank_out.ref # 1
              /\ rank_out.ref \in 1..Len(frames)
        /\ (rank_out.status = "returned") => (frames[rank_out.ref] = rank_out.value)

\* a full table that the sort reordered was returned, and the caller has since
\* overwritten the rank column of the table returned
C17_Witness ==
    /\ rank_args.fn = "rank_and_sort"
    /\ rank_out.status = "changed"
    /\ Len(rank_args.data.rows) = MaxRows
    /\ rank_out.value.rows[1].id # 1
    /\ frames[rank_out.ref] # rank_out.value

\* row i of the returned table without its rank
ReturnedInputRow(i) ==
    [c \in SeqRange(rank_args.data.columns) |-> rank_out.value.rows[i][c]]

\* rows r and t may stand in this order: their key-tuples are equal, or the
\* first key they differ in has them in that key's direction
InKeyOrder(r, t) ==
    LET by == rank_args.rank_by
    IN  \/ \A k \in 1..Len(by) : r[by[k]] = t[by[k]]
        \/ \E k \in 1..Len(by) :
              /\ \A m \in 1..(k - 1) : r[by[m]] = t[by[m]]
              /\ IF rank_args.ascending[k] THEN r[by[k]] < t[by[k]]
                 ELSE r[by[k]] > t[by[k]]

\* C18: when rank_and_sort returns, the table returned holds exactly the N
\* rows of the input (the same multiset), ordered by the composite key with
\* each key in its own direction, with the rank column first and the original
\* columns after it in their original order.
C18_SortedSameRows ==
    RankReturned =>
        LET N == Len(rank_args.data.rows)
            out == rank_out.value
        IN  /\ Len(out.rows) = N
            /\ out.columns = <<rank_args.rank_column_name>> \o rank_args.data.columns
            /\ \A i \in 1..N : DOMAIN out.rows[i] = SeqRange(out.columns)
            /\ \A i \in 1..N :
                  Cardinality({j \in 1..N : ReturnedInputRow(j) = rank_args.data.rows[i]})
                      = Cardinality({j \in 1..N :
                                        rank_args.data.rows[j] = rank_args.data.rows[i]})
            /\ \A i, j \in 1..N : (i < j) => InKeyOrder(out.rows[i], out.rows[j])

\* two keys in opposite directions, the second deciding between two rows, on
\* a full table that the sort reordered
C18_Witness ==
    /\ RankReturned
    /\ Len(rank_out.value.rows) = MaxRows
    /\ Len(rank_args.rank_by) = 2
    /\ rank_args.ascending = <<TRUE, FALSE>>
    /\ rank_out.value.rows[1].id # 1
    /\ \E i \in 1..(MaxRows - 1) :
          /\ rank_out.value.rows[i].a = rank_out.value.rows[i + 1].a
          /\ rank_out.value.rows[i].b > rank_out.value.rows[i + 1].b
    /\ rank_out.value.rows[1].a < rank_out.value.rows[MaxRows].a

\* C19: rank_and_sort on a table without rows returns a table without rows,
\* and raises nothing, for each of the three methods.
C19_AsClaimed ==
    (rank_args.fn = "rank_and_sort"
        /\ rank_args.method \in {"row_number", "dense_rank", "non_dense_rank"}
        /\ ~LengthsDiffer
        /\ Len(rank_args.data.rows) = 0
        /\ rank_out.status # "idle") =>
        /\ rank_out.status = "returned"
        /\ Len(rank_out.value.rows) = 0

\* C20: the sort is stable: rows with equal key-tuples come out in their
\* input order (column "id"), so under row_number the earlier input row of a
\* tie gets the smaller rank, for one rank_by key as for several.
C20_AsClaimed ==
    RankReturned =>
        \A i, j \in 1..Len(rank_out.value.rows) :
            (i < j /\ ReturnedKey(i) = ReturnedKey(j)) =>
                /\ rank_out.value.rows[i].id < rank_out.value.rows[j].id
                /\ (rank_args.method = "row_number") =>
                       (ReturnedRanks[i] < ReturnedRanks[j])

(***************************************************************************)
(* Further properties of the bucketers (SpecBuckets).                      *)
(***************************************************************************)
\* C21: a call of get_forward_buckets or get_backward_buckets, of either
\* bucketer, with a representation option outside the allowed set fails with
\* an invalid-option ValueError and returns no buckets.
C21_AsClaimed ==
    (call.method # "none" /\ call.given \notin {"True", "False"}) =>
        /\ call.error = "ValueError"
        /\ buckets = <<>>

InsertQueryCalled ==
    util_call.fn = "generate_insert_query" /\ util_out.status # "none"

\* a column of the call has a datatype outside the six of SqlDatatypes
SomeUnknownDatatype ==
    \E c \in DOMAIN util_call.column_to_datatype_mapper :
        util_call.column_to_datatype_mapper[c] \notin SqlDatatypes

\* C24, as claimed: whenever column_to_datatype_mapper gives a column a
\* datatype outside {integer, float, string, date, timestamp, boolean},
\* generate_insert_query fails with a ValueError and returns no query text,
\* for every record set, record sets whose values in that column are null or
\* NaN included.
C24_AsClaimed ==
    (InsertQueryCalled /\ SomeUnknownDatatype) =>
        /\ util_out.status = "raised"
        /\ util_out.error = "ValueError"

(***************************************************************************)
(* Properties of core/string_ops.py (SpecStringOps).                       *)
(***************************************************************************)
StringOpsCalled == util_call.fn \in StringOpsFunctions /\ util_out.status # "none"

\* min(num_chars, len(text))
CharsTaken == IF util_call.num_chars > Len(util_call.text)
              THEN Len(util_call.text) ELSE util_call.num_chars

\* C30, as claimed: for every text and every num_chars >= 0 (0 and values
\* above the length included) get_last_n_characters returns exactly the last
\* min(num_chars, len(text)) characters and remove_last_n_characters returns
\* the text without them, as get_first_n_characters and
\* remove_first_n_characters do at the front; for num_chars < 0 all four raise
\* ValueError.
C30_AsClaimed ==
    StringOpsCalled =>
        LET text == util_call.text
            n == Len(text)
        IN  IF util_call.num_chars < 0
            THEN util_out.status = "raised" /\ util_out.error = "ValueError"
            ELSE /\ util_out.status = "returned"
                 /\ util_out.value =
                       CASE util_call.fn = "get_first_n_characters" ->
                               SubSeq(text, 1, CharsTaken)
                         [] util_call.fn = "remove_first_n_characters" ->
                               SubSeq(text, CharsTaken + 1, n)
                         [] util_call.fn = "get_last_n_characters" ->
                               SubSeq(text, n - CharsTaken + 1, n)
                         [] util_call.fn = "remove_last_n_characters" ->
                               SubSeq(text, 1, n - CharsTaken)

(***************************************************************************)
(* Properties of filter_list_by_offset (SpecFilterList).                   *)
(***************************************************************************)
FilterListReturned ==
    util_call.fn = "filter_list_by_offset" /\ util_out.status = "returned"

\* C26: filter_list_by_offset returns list[o-1 : o-1+l], where o is offset
\* when offset >= 1 and 1 otherwise (None, 0, negative) and l is limit when
\* 1 <= limit <= 25 and 25 otherwise; the result has at most 25 elements, in
\* the order of the list.
C26_OffsetLimitWindow ==
    FilterListReturned =>
        LET list == util_call.list_obj
            o == IF util_call.offset.given /\ util_call.offset.value >= 1
                 THEN util_call.offset.value ELSE 1
            l == IF /\ util_call.limit.given
                    /\ util_call.limit.value >= 1
                    /\ util_call.limit.value <= 25
                 THEN util_call.limit.value ELSE 25
            last == IF o - 1 + l > Len(list) THEN Len(list) ELSE o - 1 + l
            out == util_out.value
        IN  /\ out = [i \in 1..(IF last < o THEN 0 ELSE last - o + 1) |-> list[o - 1 + i]]
            /\ Len(out) <= 25
            /\ \A i, j \in 1..Len(out) : (i < j) => (out[i] < out[j])

C26_Witness ==
    /\ FilterListReturned
    /\ util_call.limit.given
    /\ util_call.limit.value > 25
    /\ util_call.offset.given
    /\ util_call.offset.value = 2
    /\ Len(util_call.list_obj) = MaxListObjLen
    /\ Len(util_out.value) = 25

(***************************************************************************)
(* Inclusive DateWiseBucketer (SpecBuckets).                               *)
(***************************************************************************)
InclusiveCalled ==
    /\ DateWiseCalled
    /\ bucketer.is_inclusive
    /\ bucketer.num_days_per_bucket >= 1

\* C27: with is_inclusive = True and num_days_per_bucket >= 1, consecutive
\* buckets share their boundary day (the end of bucket i is the start of
\* bucket i+1), each start lies num_days_per_bucket - 1 days after the one
\* before, and the n buckets span n*(num_days_per_bucket - 1) + 1 days from
\* the first start to the last end, in both directions.
C27_InclusiveSharesBoundary ==
    InclusiveCalled =>
        LET n == bucketer.num_buckets
            step == bucketer.num_days_per_bucket - 1
        IN  /\ Len(buckets) = n
            /\ \A i \in 1..(n - 1) :
                  /\ BucketEnd(i) = BucketStart(i + 1)
                  /\ BucketStart(i + 1) = PlusDays(BucketStart(i), step)
            /\ BucketEnd(n) = PlusDays(BucketStart(1), n * step)
            /\ IF call.method = "get_forward_buckets"
               THEN BucketStart(1) = AnchorDate
               ELSE BucketEnd(n) = AnchorDate

C27_Witness ==
    /\ InclusiveCalled
    /\ call.method = "get_backward_buckets"
    /\ bucketer.num_days_per_bucket >= 3
    /\ Len(buckets) >= 3
    /\ BucketEnd(1) = BucketStart(2)
    /\ BucketStart(1).month # BucketEnd(Len(buckets)).month

(***************************************************************************)
(* The three ranking methods side by side (SpecRank).                      *)
(***************************************************************************)
\* the returned table without its rank column: the sorted table the ranks
\* were computed on.  The three private ranking functions read nothing of it
\* but its key-tuples, top to bottom.
ReturnedSorted ==
    [columns |-> rank_args.data.columns,
     rows |-> [i \in 1..Len(rank_out.value.rows) |-> ReturnedInputRow(i)]]

\* C28: for the same table with rows, the same rank_by and the same ascending,
\* dense_rank(i) <= non_dense_rank(i) <= row_number(i) at every sorted
\* position i; non_dense_rank(i) = row_number(i) exactly where row i is the
\* first of its group of equal key-tuples; and the three agree everywhere
\* when all key-tuples differ.  The ranks of the method called are those of
\* the returned table; the ranks of the other two methods are computed on the
\* same sorted rows.
C28_MethodsOrdered ==
    (RankReturned /\ rank_args.method \in SeqRange(method_options)
        /\ Len(rank_args.data.rows) > 0) =>
        LET N == Len(rank_args.data.rows)
            dense == IF rank_args.method = "dense_rank" THEN ReturnedRanks
                     ELSE get_dense_rankings(ReturnedSorted, rank_args.rank_by)
            non_dense == IF rank_args.method = "non_dense_rank" THEN ReturnedRanks
                         ELSE get_non_dense_rankings(ReturnedSorted, rank_args.rank_by)
            row_number == IF rank_args.method = "row_number" THEN ReturnedRanks
                          ELSE get_row_number_rankings(ReturnedSorted)
        IN  /\ Len(dense) = N /\ Len(non_dense) = N /\ Len(row_number) = N
            /\ \A i \in 1..N :
                  /\ dense[i] <= non_dense[i]
                  /\ non_dense[i] <= row_number[i]
                  /\ (non_dense[i] = row_number[i])
                        <=> (i = 1 \/ ReturnedKey(i) # ReturnedKey(i - 1))
            /\ (\A i, j \in 1..N : (i # j) => ReturnedKey(i) # ReturnedKey(j))
                  => (dense = non_dense /\ non_dense = row_number)

\* a tie of two rows and then a new group: 1,1,2 dense, 1,1,3 non-dense and
\* 1,2,3 by row number
C28_Witness ==
    /\ RankReturned
    /\ rank_args.method = "dense_rank"
    /\ Len(rank_args.rank_by) = 2
    /\ Len(rank_out.value.rows) >= 3
    /\ ReturnedKey(1) = ReturnedKey(2)
    /\ ReturnedKey(2) # ReturnedKey(3)
    /\ ReturnedRanks[3] = 2
    /\ get_non_dense_rankings(ReturnedSorted, rank_args.rank_by)[3] = 3

(***************************************************************************)
(* Properties of partition_dataframe and add_partitioning_column           *)
(* (SpecPartitionFrame).                                                   *)
(***************************************************************************)
PartitionFrameReturned(fn) == util_call.fn = fn /\ util_out.status = "returned"

\* the rows of a list of tables, one table after the other
RECURSIVE RowsOfAll(_)
RowsOfAll(tables) ==
    IF Len(tables) = 0 THEN <<>> ELSE tables[1].rows \o RowsOfAll(Tail(tables))

\* C29: for every table of L >= 0 rows and P >= 1, the call does not raise;
\* partition_dataframe returns exactly P slices whose concatenation is the
\* original row sequence; add_partitioning_column returns the L rows in their
\* original order, each labelled with a partition number in 1..P that never
\* decreases down the table and is the 1-based index of the slice of
\* partition_dataframe that holds the row.
C29_SlicesCoverTable ==
    (util_call.fn \in {"partition_dataframe", "add_partitioning_column"}
        /\ num_partitions >= 1) =>
        LET data == util_call.data
            L == Len(data.rows)
            P == num_partitions
            slices == PartitionDataframeLoop(data, indices_for_partitioning, <<>>, 1)
        IN  /\ util_out.status # "raised"
            /\ PartitionFrameReturned("partition_dataframe") =>
                  /\ Len(util_out.value) = P
                  /\ RowsOfAll(util_out.value) = data.rows
                  /\ \A k \in 1..P : util_out.value[k].columns = data.columns
            /\ PartitionFrameReturned("add_partitioning_column") =>
                  LET out == util_out.value
                      label == [i \in 1..Len(out.rows) |-> out.rows[i][util_call.column_name]]
                  IN  /\ Len(out.rows) = L
                      /\ \A i \in 1..L :
                            /\ DOMAIN out.rows[i] = {"id", util_call.column_name}
                            /\ out.rows[i].id = data.rows[i].id
                            /\ label[i] \in 1..P
                            /\ i < L => label[i] <= label[i + 1]
                            /\ Len(RowsOfAll(SubSeq(slices, 1, label[i] - 1))) < i
                            /\ i <= Len(RowsOfAll(SubSeq(slices, 1, label[i])))

C29_Witness ==
    /\ PartitionFrameReturned("add_partitioning_column")
    /\ num_partitions = MaxP
    /\ Len(util_call.data.rows) = MaxLen
    /\ util_out.value.rows[MaxLen][util_call.column_name] = MaxP
    /\ util_out.value.rows[2][util_call.column_name] = 1
    /\ util_out.value.rows[1].id # util_out.value.rows[2].id

(***************************************************************************)
(* Properties of the attachments of an email (SpecEmail).                  *)
(***************************************************************************)
EmailCallEnded ==
    /\ util_call.fn \in {"add_attachments_to_multipart_obj", "send_email"}
    /\ util_out.status \in {"raised", "returned"}

\* a filepath of the call has an extension outside csv, docx, pdf, xls, xlsx
SomeUnsupportedAttachment ==
    /\ util_call.filepaths_given
    /\ \E k \in 1..Len(util_call.filepaths_to_attachments) :
          mime_subtype_of(Lower(get_extension(util_call.filepaths_to_attachments[k])))
              = "None"

\* C25, as claimed: when a filepath has an unsupported extension,
\* add_attachments_to_multipart_obj and send_email fail as a whole with an
\* error that names the allowed extensions: the multipart object holds no new
\* attachment, also when supported files come before the unsupported one, no
\* SMTP connection is opened and nothing is sent.
C25_AsClaimed ==
    (EmailCallEnded /\ SomeUnsupportedAttachment) =>
        /\ util_out.status = "raised"
        /\ util_out.error.supported = supported_extensions
        /\ util_out.server = "none"
        /\ util_out.sent = <<>>
        /\ (util_call.fn = "add_attachments_to_multipart_obj")
              => (util_out.msg = util_call.multipart_obj)

====
